---- MODULE Spec2Model ----
(***************************************************************************)
(* DataFlow SSA builder of src/dataflow/builder.h (wasm::DataFlow::Builder) *)
(* as a state machine.  One behaviour is the walk of one function body:    *)
(* each action is one visitor (or, for a control-flow visitor, the part of *)
(* it that runs before, between or after the visits of its children).      *)
(* The binary writer of src/stack/stack.cpp (wasm::stack::Writer) is a     *)
(* second state machine on variables of its own: one behaviour is the      *)
(* emission of one expression tree.                                        *)
(***************************************************************************)
EXTENDS Integers, Sequences, FiniteSets, TLC

VARIABLES
  func,                    \* Function* func: [types, numParams]
  nodes,                   \* std::vector<std::unique_ptr<Node>> nodes (the arena)
  locals,                  \* Locals locals; << >> on an unreachable path
  breakStates,             \* unordered_map<Name, vector<Locals>>
  sets,                    \* std::vector<SetLocal*> sets
  setNodeMap,              \* unordered_map<SetLocal*, Node*>
  expressionConditionMap,  \* unordered_map<Expression*, vector<Node*>>
  parentMap,               \* unordered_map<Expression*, Expression*>
  parent,                  \* Expression* parent
  stack,                   \* the C++ call stack of the control-flow visitors
  visited,                 \* number of statements visited: Expression* identity
  aborted,                 \* the process died (WASM_UNREACHABLE or a crash)
  undone,                  \* history: the loop Vars that visitLoop has undone
  o,                       \* BufferWithRandomAccess& o: what the Writer wrote
  breakStack,              \* std::vector<Name> breakStack of the Writer
  work,                    \* the Writer's C++ call stack: what is left to do
  spans                    \* history: [curr, start, stop] of what was written

vars == << func, nodes, locals, breakStates, sets, setNodeMap,
           expressionConditionMap, parentMap, parent, stack, visited, aborted,
           undone, o, breakStack, work, spans >>

\* the variables of the Writer
writer == << o, breakStack, work, spans >>

\* the variables of the DataFlow builder, but for aborted
dataflow == << func, nodes, locals, breakStates, sets, setNodeMap,
               expressionConditionMap, parentMap, parent, stack, visited,
               undone >>

-----------------------------------------------------------------------------
(* Bounds of the model.                                                    *)

\* statements (leaf statements and openings of control flow) per function body
MaxStmts == 4
\* nesting depth of control-flow constructs
MaxDepth == 2
\* locals of a function whose signature is enumerated
MaxLocals == 3

-----------------------------------------------------------------------------
(* Node references.  The arena is a sequence; a reference is an index in   *)
(* it.  The canonical bad node is a member of Builder, not of the arena.   *)

Bad == 0
Null == -1

I32 == "i32"
I64 == "i64"
F32 == "f32"
None == "none"

isIntegerType(type) == type \in {I32, I64}

isRelevantType(type) == isIntegerType(type)

isBad(node) == node = Bad

\* Node::makeVar, makeExpr, makePhi, makeBlock, makeCond, makeZext
NodeVar(type) ==
  [type |-> "Var", op |-> None, wasmType |-> type, lit |-> 0, index |-> 0,
   values |-> << >>]

NodeExpr(op, type, lit) ==
  [type |-> "Expr", op |-> op, wasmType |-> type, lit |-> lit, index |-> 0,
   values |-> << >>]

NodePhi(block) ==
  [type |-> "Phi", op |-> None, wasmType |-> None, lit |-> 0, index |-> 0,
   values |-> << block >>]

NodeBlock ==
  [type |-> "Block", op |-> None, wasmType |-> None, lit |-> 0, index |-> 0,
   values |-> << >>]

NodeCond(block, index, node) ==
  [type |-> "Cond", op |-> None, wasmType |-> None, lit |-> 0, index |-> index,
   values |-> << block, node >>]

NodeZext(node) ==
  [type |-> "Zext", op |-> None, wasmType |-> None, lit |-> 0, index |-> 0,
   values |-> << node >>]

\* Node::addValue
addValue(ns, node, value) ==
  [ns EXCEPT ![node].values = Append(@, value)]

\* The relational binaries: Binary::isRelational for the integer operators.
RelationalOps ==
  { "EqInt32", "EqInt64", "NeInt32", "NeInt64",
    "LtSInt32", "LtSInt64", "LtUInt32", "LtUInt64",
    "LeSInt32", "LeSInt64", "LeUInt32", "LeUInt64",
    "GtSInt32", "GtSInt64", "GtUInt32", "GtUInt64",
    "GeSInt32", "GeSInt64", "GeUInt32", "GeUInt64" }

\* Node::returnsI1
returnsI1(ns, node) ==
  /\ node # Bad
  /\ ns[node].type = "Expr"
  /\ ns[node].op \in RelationalOps

\* Node::getWasmType
RECURSIVE getWasmType(_, _)
getWasmType(ns, node) ==
  IF node = Bad THEN "unreachable"
  ELSE CASE ns[node].type = "Var" -> ns[node].wasmType
         [] ns[node].type = "Expr" -> ns[node].wasmType
         [] ns[node].type = "Phi" -> getWasmType(ns, ns[node].values[2])
         [] ns[node].type = "Zext" -> getWasmType(ns, ns[node].values[1])
         [] OTHER -> "unreachable"

\* Node::operator==
NodeEq(ns, a, b) ==
  IF a = Bad \/ b = Bad THEN a = b
  ELSE /\ ns[a].type = ns[b].type
       /\ ns[a].op = ns[b].op
       /\ ns[a].wasmType = ns[b].wasmType
       /\ ns[a].lit = ns[b].lit
       /\ ns[a].index = ns[b].index
       /\ ns[a].values = ns[b].values

-----------------------------------------------------------------------------
(* The source IR: the expressions the walk meets.                          *)

Const(type, lit) == [kind |-> "Const", type |-> type, lit |-> lit]
GetLocal(index) == [kind |-> "GetLocal", index |-> index]
Unary(op, value) == [kind |-> "Unary", op |-> op, value |-> value]
Binary(op, left, right) ==
  [kind |-> "Binary", op |-> op, left |-> left, right |-> right]
Select(type, ifTrue, ifFalse, condition) ==
  [kind |-> "Select", type |-> type, ifTrue |-> ifTrue, ifFalse |-> ifFalse,
   condition |-> condition]
Call(type) == [kind |-> "Call", type |-> type]
Host == [kind |-> "Host"]
Unreachable == [kind |-> "Unreachable"]


\* wasm operators.  The names are those of the UnaryOp and BinaryOp enums.
Int64Ops ==
  { "ClzInt64", "CtzInt64", "PopcntInt64", "EqZInt64",
    "AddInt64", "SubInt64", "MulInt64", "DivSInt64", "DivUInt64",
    "RemSInt64", "RemUInt64", "AndInt64", "OrInt64", "XorInt64",
    "ShlInt64", "ShrUInt64", "ShrSInt64", "RotLInt64", "RotRInt64",
    "EqInt64", "NeInt64", "LtSInt64", "LtUInt64", "LeSInt64", "LeUInt64",
    "GtSInt64", "GtUInt64", "GeSInt64", "GeUInt64" }

FloatOps == { "AddFloat32", "NegFloat32" }

\* type of the operands of an operator
OperandType(op) ==
  IF op \in FloatOps THEN F32 ELSE IF op \in Int64Ops THEN I64 ELSE I32

\* Expression::type of a Unary or Binary (set by finalize())
ResultType(op) ==
  IF op \in RelationalOps \/ op \in {"EqZInt32", "EqZInt64"} THEN I32
  ELSE OperandType(op)

\* Abstract::getBinary(type, Abstract::Eq) and (type, Abstract::Ne)
getBinary(type, equal) ==
  IF type = I32 THEN (IF equal THEN "EqInt32" ELSE "NeInt32")
  ELSE (IF equal THEN "EqInt64" ELSE "NeInt64")

-----------------------------------------------------------------------------
(* Builder helpers.  An operator that adds nodes takes the arena and       *)
(* returns [node, nodes, abort]: the Node* it returns, the arena after it, *)
(* and whether it ran into WASM_UNREACHABLE().                             *)

numLocals == Len(func.types)

getLocalType(index) == func.types[index]

isParam(index) == index <= func.numParams

isRelevantLocal(index) == isRelevantType(getLocalType(index))

isInUnreachable(state) == state = << >>

Result(node, ns) == [node |-> node, nodes |-> ns, abort |-> FALSE]

Abort(ns) == [node |-> Bad, nodes |-> ns, abort |-> TRUE]

\* Builder::addNode
addNode(ns, node) == Result(Len(ns) + 1, Append(ns, node))

\* makeVar, were it to make a Var of any type
makeVarOfAnyType(ns, type) == addNode(ns, NodeVar(type))

\* Builder::makeVar
makeVar(ns, type) ==
  IF isRelevantType(type) THEN addNode(ns, NodeVar(type)) ELSE Result(Bad, ns)

\* Builder::makeZero
makeZero(ns, type) == addNode(ns, NodeExpr("Const", type, 0))

\* Builder::expandFromI1
expandFromI1(ns, node) ==
  IF ~isBad(node) /\ returnsI1(ns, node)
  THEN addNode(ns, NodeZext(node))
  ELSE Result(node, ns)

\* Builder::makeZeroComp with Builder::getUnused
makeZeroComp(ns, node, equal) ==
  LET type == getWasmType(ns, node) IN
  IF ~isIntegerType(type) THEN Abort(ns)
  ELSE LET zero == makeZero(ns, type)
           check == addNode(zero.nodes, NodeExpr(getBinary(type, equal), type, 0))
           value == expandFromI1(check.nodes, node)
       IN Result(check.node,
                 addValue(addValue(value.nodes, check.node, value.node),
                          check.node, zero.node))

\* Builder::ensureI1
ensureI1(ns, node) ==
  IF ~isBad(node) /\ ~returnsI1(ns, node)
  THEN makeZeroComp(ns, node, FALSE)
  ELSE Result(node, ns)


-----------------------------------------------------------------------------
(* Visitors of the value expressions (the operands of a local.set and the  *)
(* condition of an if).  ls is the current local state.                    *)

\* The binaries visitBinary builds an Expr for as they are.
SupportedBinaryOps ==
  { "AddInt32", "AddInt64", "SubInt32", "SubInt64", "MulInt32", "MulInt64",
    "DivSInt32", "DivSInt64", "DivUInt32", "DivUInt64",
    "RemSInt32", "RemSInt64", "RemUInt32", "RemUInt64",
    "AndInt32", "AndInt64", "OrInt32", "OrInt64", "XorInt32", "XorInt64",
    "ShlInt32", "ShlInt64", "ShrUInt32", "ShrUInt64", "ShrSInt32", "ShrSInt64",
    "RotLInt32", "RotLInt64", "RotRInt32", "RotRInt64",
    "EqInt32", "EqInt64", "NeInt32", "NeInt64",
    "LtSInt32", "LtSInt64", "LtUInt32", "LtUInt64",
    "LeSInt32", "LeSInt64", "LeUInt32", "LeUInt64" }

\* The binaries visitBinary flips.
FlippedBinaryOps ==
  { "GtSInt32", "GtSInt64", "GeSInt32", "GeSInt64",
    "GtUInt32", "GtUInt64", "GeUInt32", "GeUInt64" }

\* The inner switch of visitBinary: the operator of the flipped binary.
opposite(op) ==
  CASE op = "GtSInt32" -> "LeSInt32"
    [] op = "GtSInt64" -> "LeSInt64"
    [] op = "GeSInt32" -> "LtSInt32"
    [] op = "GeSInt64" -> "LtSInt64"
    [] op = "GtUInt32" -> "LeUInt32"
    [] op = "GtUInt64" -> "LeUInt64"
    [] op = "GeUInt32" -> "LtUInt32"
    [] op = "GeUInt64" -> "LtUInt64"

\* The unaries visitUnary builds an Expr for.
CountingUnaryOps ==
  { "ClzInt32", "ClzInt64", "CtzInt32", "CtzInt64", "PopcntInt32", "PopcntInt64" }

EqZUnaryOps == { "EqZInt32", "EqZInt64" }

\* Builder::visitGetLocal
visitGetLocal(curr, ns, ls) ==
  IF ~isRelevantLocal(curr.index) \/ isInUnreachable(ls)
  THEN Result(Bad, ns)
  ELSE Result(ls[curr.index], ns)

\* Builder::visitConst
visitConst(curr, ns) == addNode(ns, NodeExpr("Const", curr.type, curr.lit))

\* the tail of a supported unary, after its operand was visited
buildUnary(curr, visitedValue) ==
  IF visitedValue.abort THEN visitedValue
  ELSE LET value == expandFromI1(visitedValue.nodes, visitedValue.node) IN
       IF isBad(value.node) THEN value
       ELSE IF curr.op \in EqZUnaryOps
       THEN makeZeroComp(value.nodes, value.node, TRUE)
       ELSE LET ret == addNode(value.nodes,
                               NodeExpr(curr.op, ResultType(curr.op), 0))
            IN Result(ret.node, addValue(ret.nodes, ret.node, value.node))

\* the tail of a supported binary: op is the operator of the Expr built
buildBinary(op, left, visitedRight) ==
  IF visitedRight.abort THEN visitedRight
  ELSE LET right == expandFromI1(visitedRight.nodes, visitedRight.node) IN
       IF isBad(right.node) THEN right
       ELSE LET ret == addNode(right.nodes, NodeExpr(op, ResultType(op), 0))
            IN Result(ret.node,
                      addValue(addValue(ret.nodes, ret.node, left),
                               ret.node, right.node))

\* the tail of visitSelect, after the three children were visited
buildSelect(ifTrue, ifFalse, visitedCondition, type) ==
  IF visitedCondition.abort THEN visitedCondition
  ELSE LET condition == ensureI1(visitedCondition.nodes, visitedCondition.node) IN
       IF condition.abort \/ isBad(condition.node) THEN condition
       ELSE LET ret == addNode(condition.nodes, NodeExpr("Select", type, 0))
            IN Result(ret.node,
                      addValue(addValue(addValue(ret.nodes, ret.node,
                                                 condition.node),
                                        ret.node, ifTrue),
                               ret.node, ifFalse))

\* Builder::visit for a value expression, with visitUnary, visitBinary,
\* visitSelect, visitCall and visitHost
RECURSIVE visit(_, _, _)
visit(curr, ns, ls) ==
  CASE curr.kind = "Const" -> visitConst(curr, ns)
    [] curr.kind = "GetLocal" -> visitGetLocal(curr, ns, ls)
    [] curr.kind = "Call" -> makeVar(ns, curr.type)
    [] curr.kind = "Host" -> Result(Bad, ns)
    [] curr.kind = "Unary" ->
         IF curr.op \in CountingUnaryOps \cup EqZUnaryOps
         THEN buildUnary(curr, visit(curr.value, ns, ls))
         ELSE makeVar(ns, ResultType(curr.op))
    [] curr.kind = "Binary" ->
         IF curr.op \in SupportedBinaryOps THEN
           LET visitedLeft == visit(curr.left, ns, ls) IN
           IF visitedLeft.abort THEN visitedLeft
           ELSE LET left == expandFromI1(visitedLeft.nodes, visitedLeft.node) IN
                IF isBad(left.node) THEN left
                ELSE buildBinary(curr.op, left.node,
                                 visit(curr.right, left.nodes, ls))
         ELSE IF curr.op \in FlippedBinaryOps THEN
           visit(Binary(opposite(curr.op), curr.right, curr.left), ns, ls)
         ELSE makeVar(ns, ResultType(curr.op))
    [] curr.kind = "Select" ->
         LET visitedTrue == visit(curr.ifTrue, ns, ls) IN
         IF visitedTrue.abort THEN visitedTrue
         ELSE LET ifTrue == expandFromI1(visitedTrue.nodes, visitedTrue.node) IN
              IF isBad(ifTrue.node) THEN ifTrue
              ELSE LET visitedFalse == visit(curr.ifFalse, ifTrue.nodes, ls) IN
                   IF visitedFalse.abort THEN visitedFalse
                   ELSE LET ifFalse == expandFromI1(visitedFalse.nodes,
                                                    visitedFalse.node) IN
                        IF isBad(ifFalse.node) THEN ifFalse
                        ELSE buildSelect(ifTrue.node, ifFalse.node,
                                         visit(curr.condition, ifFalse.nodes, ls),
                                         curr.type)


-----------------------------------------------------------------------------
(* The merge/phi engine.  A FlowState is [locals, condition].              *)

FlowState(state, condition) == [locals |-> state, condition |-> condition]

\* Builder::setInReachable: locals.resize(numLocals)
setInReachable(state) ==
  [i \in 1..numLocals |-> IF i <= Len(state) THEN state[i] ELSE Null]

\* addConditions, were it to list only the conditions that are not Bad
RECURSIVE addKnownConditions(_, _, _, _)
addKnownConditions(states, ns, block, index) ==
  IF index >= Len(states) THEN ns
  ELSE LET condition == states[index + 1].condition IN
       IF ~isBad(condition)
       THEN LET cond == addNode(ns, NodeCond(block, index, condition)) IN
            addKnownConditions(states, addValue(cond.nodes, block, cond.node),
                               block, index + 1)
       ELSE addKnownConditions(states, ns, block, index + 1)

\* merge, lines 616-623: the Block of a merge and its conditions
RECURSIVE addConditions(_, _, _, _)
addConditions(states, ns, block, index) ==
  IF index >= Len(states) THEN ns
  ELSE LET condition == states[index + 1].condition IN
       IF ~isBad(condition)
       THEN LET cond == addNode(ns, NodeCond(block, index, condition)) IN
            addConditions(states, addValue(cond.nodes, block, cond.node),
                          block, index + 1)
       ELSE addConditions(states, addValue(ns, block, condition),
                          block, index + 1)

makeMergeBlock(states, ns) ==
  LET block == addNode(ns, NodeBlock) IN
  Result(block.node, addConditions(states, block.nodes, block.node, 0))

\* merge, lines 625-628: the inputs of a Phi
RECURSIVE addPhiValues(_, _, _, _, _)
addPhiValues(states, ns, phi, i, k) ==
  IF k > Len(states) THEN ns
  ELSE LET value == expandFromI1(ns, states[k].locals[i]) IN
       addPhiValues(states, addValue(value.nodes, phi, value.node), phi, i, k + 1)

\* mergeLocals, were a Bad input to give the slot of the first input
RECURSIVE mergeLocalsFirstWins(_, _, _, _, _)
mergeLocalsFirstWins(states, out, ns, block, i) ==
  IF i > numLocals THEN [locals |-> out, nodes |-> ns, abort |-> FALSE]
  ELSE IF \E k \in 1..Len(states) : isBad(states[k].locals[i])
  THEN mergeLocalsFirstWins(states, [out EXCEPT ![i] = states[1].locals[i]],
                            ns, block, i + 1)
  ELSE LET first == states[1].locals[i] IN
       IF \A k \in 1..Len(states) : states[k].locals[i] = first
       THEN mergeLocalsFirstWins(states, [out EXCEPT ![i] = first], ns, block,
                                 i + 1)
       ELSE LET made == IF block = Null THEN makeMergeBlock(states, ns)
                        ELSE Result(block, ns)
                phi == addNode(made.nodes, NodePhi(made.node))
            IN mergeLocalsFirstWins(states, [out EXCEPT ![i] = phi.node],
                                    addPhiValues(states, phi.nodes, phi.node, i, 1),
                                    made.node, i + 1)

\* mergeLocals, were it to make a Phi also where the inputs agree
RECURSIVE mergeLocalsEagerly(_, _, _, _, _)
mergeLocalsEagerly(states, out, ns, block, i) ==
  IF i > numLocals THEN [locals |-> out, nodes |-> ns, abort |-> FALSE]
  ELSE IF \E k \in 1..Len(states) : isBad(states[k].locals[i])
  THEN mergeLocalsEagerly(states, [out EXCEPT ![i] = Bad], ns, block, i + 1)
  ELSE LET made == IF block = Null THEN makeMergeBlock(states, ns)
                   ELSE Result(block, ns)
           phi == addNode(made.nodes, NodePhi(made.node))
       IN mergeLocalsEagerly(states, [out EXCEPT ![i] = phi.node],
                             addPhiValues(states, phi.nodes, phi.node, i, 1),
                             made.node, i + 1)

\* merge, lines 596-633: the loop over the locals
RECURSIVE mergeLocals(_, _, _, _, _)
mergeLocals(states, out, ns, block, i) ==
  IF i > numLocals THEN [locals |-> out, nodes |-> ns, abort |-> FALSE]
  ELSE IF \E k \in 1..Len(states) : isBad(states[k].locals[i])
  THEN mergeLocals(states, [out EXCEPT ![i] = Bad], ns, block, i + 1)
  ELSE LET first == states[1].locals[i] IN
       IF \A k \in 1..Len(states) : states[k].locals[i] = first
       THEN mergeLocals(states, [out EXCEPT ![i] = first], ns, block, i + 1)
       ELSE LET made == IF block = Null THEN makeMergeBlock(states, ns)
                        ELSE Result(block, ns)
                phi == addNode(made.nodes, NodePhi(made.node))
            IN mergeLocals(states, [out EXCEPT ![i] = phi.node],
                           addPhiValues(states, phi.nodes, phi.node, i, 1),
                           made.node, i + 1)

\* merge, lines 578-580: ignore unreachable states
reachableStates(states) ==
  SelectSeq(states, LAMBDA curr : ~isInUnreachable(curr.locals))

\* merge, were it to leave out alone when a single input is Reachable
mergeKeepingOut(states, out, ns) ==
  LET reachable == reachableStates(states)
      numStates == Len(reachable)
  IN IF numStates = 0
     THEN [locals |-> out, nodes |-> ns, abort |-> ~isInUnreachable(out)]
     ELSE IF numStates = 1
     THEN [locals |-> out, nodes |-> ns, abort |-> FALSE]
     ELSE mergeLocals(reachable, setInReachable(out), ns, Null, 1)

\* Builder::merge.  out is the local state written, which is `locals` at
\* every call.  Returns [locals, nodes, abort].
merge(states, out, ns) ==
  LET reachable == reachableStates(states)
      numStates == Len(reachable)
  IN IF numStates = 0
     THEN [locals |-> out, nodes |-> ns, abort |-> ~isInUnreachable(out)]
     ELSE IF numStates = 1
     THEN [locals |-> reachable[1].locals, nodes |-> ns, abort |-> FALSE]
     ELSE mergeLocals(reachable, setInReachable(out), ns, Null, 1)

\* Builder::mergeBlock
mergeBlock(localses, out, ns) ==
  merge([k \in 1..Len(localses) |-> FlowState(localses[k], Bad)], out, ns)

\* Builder::mergeIf.  Returns [locals, nodes, abort, conditions]:
\* conditions is what the call appended to expressionConditionMap[expr].
mergeIf(aState, bState, condition, out, ns) ==
  IF ~isBad(condition)
  THEN LET ifTrue == ensureI1(ns, condition) IN
       IF ifTrue.abort
       THEN [locals |-> out, nodes |-> ns, abort |-> TRUE, conditions |-> << >>]
       ELSE LET ifFalse == makeZeroComp(ifTrue.nodes, condition, TRUE)
                merged == merge(<< FlowState(aState, ifTrue.node),
                                   FlowState(bState, ifFalse.node) >>,
                                out, ifFalse.nodes)
            IN [locals |-> merged.locals, nodes |-> merged.nodes,
                abort |-> ifFalse.abort \/ merged.abort,
                conditions |-> << ifTrue.node, ifFalse.node >>]
  ELSE LET merged == merge(<< FlowState(aState, Bad), FlowState(bState, Bad) >>,
                           out, ns)
       IN [locals |-> merged.locals, nodes |-> merged.nodes,
           abort |-> merged.abort, conditions |-> << >>]

-----------------------------------------------------------------------------
(* Loop-phi resolution: the tail of visitLoop.                             *)

\* needPhi, were it to find that no local ever needs a phi
needNoPhi(ns, breaks, i, k, var, proper, garbage) == FALSE

\* lines 274-281: does local i need a phi?  k runs over the snapshots taken
\* by the branches to the loop; garbage is what the comparison gives for a
\* snapshot that is empty (other[i] is then read out of bounds).
RECURSIVE needPhi(_, _, _, _, _, _, _)
needPhi(ns, breaks, i, k, var, proper, garbage) ==
  IF k > Len(breaks) THEN FALSE
  ELSE IF isInUnreachable(breaks[k])
  THEN garbage \/ needPhi(ns, breaks, i, k + 1, var, proper, garbage)
  ELSE IF ~NodeEq(ns, breaks[k][i], var) /\ ~NodeEq(ns, breaks[k][i], proper)
  THEN TRUE
  ELSE needPhi(ns, breaks, i, k + 1, var, proper, garbage)

\* whether the scan of lines 274-281 indexes an empty snapshot
RECURSIVE indexesEmpty(_, _, _, _, _, _)
indexesEmpty(ns, breaks, i, k, var, proper) ==
  IF k > Len(breaks) THEN FALSE
  ELSE IF isInUnreachable(breaks[k]) THEN TRUE
  ELSE IF ~NodeEq(ns, breaks[k][i], var) /\ ~NodeEq(ns, breaks[k][i], proper)
  THEN FALSE
  ELSE indexesEmpty(ns, breaks, i, k + 1, var, proper)

\* undoVarInNodes, were it to put the newest node of the arena in the place
\* of var
undoVarToNewest(ns, firstNodeFromLoop, var, proper) ==
  [j \in 1..Len(ns) |->
     IF j > firstNodeFromLoop
     THEN [ns[j] EXCEPT !.values =
             [v \in 1..Len(ns[j].values) |->
                IF ns[j].values[v] = var THEN Len(ns) ELSE ns[j].values[v]]]
     ELSE ns[j]]

\* undoVarInNodes, were it to scan the whole arena
undoVarInAllNodes(ns, firstNodeFromLoop, var, proper) ==
  [j \in 1..Len(ns) |->
     [ns[j] EXCEPT !.values =
        [v \in 1..Len(ns[j].values) |->
           IF ns[j].values[v] = var THEN proper ELSE ns[j].values[v]]]]

\* lines 289-295: replace var by proper in the nodes added since the loop began
undoVarInNodes(ns, firstNodeFromLoop, var, proper) ==
  [j \in 1..Len(ns) |->
     IF j > firstNodeFromLoop
     THEN [ns[j] EXCEPT !.values =
             [v \in 1..Len(ns[j].values) |->
                IF ns[j].values[v] = var THEN proper ELSE ns[j].values[v]]]
     ELSE ns[j]]

\* lines 298-302: replace var by proper in the local state flowing out
undoVarInLocals(state, var, proper) ==
  [k \in 1..Len(state) |-> IF state[k] = var THEN proper ELSE state[k]]

\* lines 267-304: the loop over the locals.  garbage[i] is the outcome of the
\* out-of-bounds comparisons for local i.  Returns [locals, nodes, undone,
\* undefined]: undone are the Vars that were undone, and undefined tells
\* whether an empty snapshot was indexed on the way.
RECURSIVE resolveLoop(_, _, _, _, _, _)
resolveLoop(loop, breaks, garbage, ns, state, i) ==
  IF i > numLocals
  THEN [locals |-> state, nodes |-> ns, undone |-> {}, undefined |-> FALSE]
  ELSE LET var == loop.vars[i]
           proper == loop.previous[i]
           phi == needPhi(ns, breaks, i, 1, var, proper, garbage[i])
           rest == IF phi
                   THEN resolveLoop(loop, breaks, garbage, ns, state, i + 1)
                   ELSE resolveLoop(loop, breaks, garbage,
                                    undoVarInNodes(ns, loop.firstNodeFromLoop,
                                                   var, proper),
                                    undoVarInLocals(state, var, proper), i + 1)
       IN [rest EXCEPT
             !.undone = IF phi \/ isBad(var) THEN @ ELSE @ \cup {var},
             !.undefined = @ \/ indexesEmpty(ns, breaks, i, 1, var, proper)]

\* lines 255-257: a Var for every local at the entry of a labelled loop
RECURSIVE makeLoopVars(_, _, _)
makeLoopVars(ns, state, i) ==
  IF i > numLocals THEN [locals |-> state, nodes |-> ns]
  ELSE LET var == makeVar(ns, getLocalType(i)) IN
       makeLoopVars(var.nodes,
                    IF isInUnreachable(state) THEN state
                    ELSE [state EXCEPT ![i] = var.node],
                    i + 1)

\* Builder::Builder, lines 106-115: the initial local state
RECURSIVE makeInitialLocals(_, _, _)
makeInitialLocals(ns, state, i) ==
  IF i > numLocals THEN [locals |-> state, nodes |-> ns]
  ELSE LET node == IF isParam(i) THEN makeVar(ns, getLocalType(i))
                   ELSE makeZero(ns, getLocalType(i))
       IN makeInitialLocals(node.nodes, [state EXCEPT ![i] = node.node], i + 1)

-----------------------------------------------------------------------------
(* The functions and statements the walk is given.                         *)

\* Function: the types of the locals, the first numParams of them parameters
Funcs ==
  { [types |-> << I32, I32 >>, numParams |-> 1],
    [types |-> << I32, I32 >>, numParams |-> 2],
    [types |-> << I32, F32 >>, numParams |-> 1] }

\* the local.set statements: [index, value]
SetLocals ==
  { [index |-> 1, value |-> Host],
    [index |-> 1, value |-> Binary("AddInt32", GetLocal(1), Const(I32, 1))],
    [index |-> 2, value |-> Const(I32, 1)],
    [index |-> 2, value |-> Unary("ClzInt32", GetLocal(1))],
    [index |-> 2, value |-> Binary("GtSInt32", GetLocal(1), GetLocal(2))] }

\* the conditions of the ifs
Conditions ==
  { GetLocal(1), Binary("LtSInt32", GetLocal(1), GetLocal(2)) }

\* a frame of a control-flow visitor: its Expression and its C++ locals
Frame(kind, id, name) ==
  [kind |-> kind, id |-> id, name |-> name, oldParent |-> parent,
   condition |-> Bad, initialState |-> << >>, afterIfTrueState |-> << >>,
   previous |-> << >>, vars |-> << >>, firstNodeFromLoop |-> 0]

top == stack[Len(stack)]

pop == SubSeq(stack, 1, Len(stack) - 1)

\* the labels a branch can name: those of the enclosing blocks and loops
Labels == { stack[d].name : d \in 1..Len(stack) } \ { 0 }

CanVisit == ~aborted /\ visited < MaxStmts

CanOpen == CanVisit /\ Len(stack) < MaxDepth

\* map[key] = value of an unordered_map
Put(map, key, value) ==
  [k \in DOMAIN map \cup {key} |-> IF k = key THEN value ELSE map[k]]

\* breakStates[name].push_back(state)
pushBreakState(map, name, state) ==
  Put(map, name, IF name \in DOMAIN map THEN Append(map[name], state)
                 ELSE << state >>)


-----------------------------------------------------------------------------
(* The walk.                                                               *)

\* Builder::Builder up to the visit of the body
Constructed(funcs) ==
  /\ func \in funcs
  /\ LET initial == makeInitialLocals(<< >>, setInReachable(<< >>), 1) IN
       /\ nodes = initial.nodes
       /\ locals = initial.locals
  /\ breakStates = << >>
  /\ sets = << >>
  /\ setNodeMap = << >>
  /\ expressionConditionMap = << >>
  /\ parentMap = << >>
  /\ parent = 0
  /\ stack = << >>
  /\ visited = 0
  /\ aborted = FALSE
  /\ undone = {}
  /\ o = << >>
  /\ breakStack = << >>
  /\ work = << >>
  /\ spans = << >>

Init == Constructed(Funcs)

\* Builder::setInUnreachable
setInUnreachable == << >>

\* the process dies: nothing else is observed
Die ==
  /\ aborted' = TRUE
  /\ UNCHANGED << writer, func, nodes, locals, breakStates, sets, setNodeMap,
                  expressionConditionMap, parentMap, parent, stack, visited,
                  undone >>

\* Builder::visitSetLocal.  A value that ends the path (visitUnreachable)
\* clears locals before `locals[curr->index] = ...` is done: the store indexes
\* an empty vector, which is undefined; the process dies or the store is lost.
VisitSetLocal(curr) ==
  /\ CanVisit
  /\ IF ~isRelevantLocal(curr.index) \/ isInUnreachable(locals)
     THEN /\ visited' = visited + 1
          /\ UNCHANGED << writer, func, nodes, locals, breakStates, sets, setNodeMap,
                          expressionConditionMap, parentMap, parent, stack,
                          aborted, undone >>
     ELSE IF curr.value = Unreachable
     THEN \/ Die
          \/ LET id == visited + 1 IN
               /\ visited' = id
               /\ sets' = Append(sets, [id |-> id, index |-> curr.index,
                                        value |-> curr.value])
               /\ parentMap' = Put(parentMap, id, parent)
               /\ setNodeMap' = Put(setNodeMap, id, Bad)
               /\ locals' = setInUnreachable
               /\ UNCHANGED << writer, func, nodes, breakStates, expressionConditionMap,
                               parent, stack, aborted, undone >>
     ELSE LET value == visit(curr.value, nodes, locals)
              id == visited + 1
          IN IF value.abort THEN Die
             ELSE /\ visited' = id
                  /\ sets' = Append(sets, [id |-> id, index |-> curr.index,
                                           value |-> curr.value])
                  /\ parentMap' = Put(parentMap, id, parent)
                  /\ setNodeMap' = Put(setNodeMap, id, value.node)
                  /\ nodes' = value.nodes
                  /\ locals' = [locals EXCEPT ![curr.index] = value.node]
                  /\ UNCHANGED << writer, func, breakStates, expressionConditionMap,
                                  parent, stack, aborted, undone >>

\* Builder::visitBlock, lines 190-192: up to the visit of the children
EnterBlock(named) ==
  /\ CanOpen
  /\ LET id == visited + 1 IN
       /\ visited' = id
       /\ parentMap' = Put(parentMap, id, parent)
       /\ parent' = id
       /\ stack' = Append(stack, Frame("block", id, IF named THEN id ELSE 0))
  /\ UNCHANGED << writer, func, nodes, locals, breakStates, sets, setNodeMap,
                  expressionConditionMap, aborted, undone >>

\* the states visitBlock would merge, were it to leave out the state that
\* flows out of the block
branchStates(map, name, state) == map[name]

\* Builder::visitBlock, lines 201-203: the states stored for the block's
\* label, and the state flowing out
blockStates(map, name, state) == Append(map[name], state)

\* Builder::visitBlock, lines 196-208: after the children
ExitBlock ==
  /\ ~aborted
  /\ stack # << >>
  /\ top.kind = "block"
  /\ IF top.name # 0 /\ top.name \in DOMAIN breakStates
     THEN LET states == blockStates(breakStates, top.name, locals)
              merged == mergeBlock(states, locals, nodes)
          IN IF merged.abort THEN Die
             ELSE /\ breakStates' = Put(breakStates, top.name, states)
                  /\ nodes' = merged.nodes
                  /\ locals' = merged.locals
                  /\ parent' = top.oldParent
                  /\ stack' = pop
                  /\ UNCHANGED << writer, func, sets, setNodeMap, expressionConditionMap,
                                  parentMap, visited, aborted, undone >>
     ELSE /\ parent' = top.oldParent
          /\ stack' = pop
          /\ UNCHANGED << writer, func, nodes, locals, breakStates, sets, setNodeMap,
                          expressionConditionMap, parentMap, visited, aborted, undone >>

\* Builder::visitIf, lines 211-218: the condition, up to the visit of ifTrue
EnterIf(condition) ==
  /\ CanOpen
  /\ LET id == visited + 1
         value == visit(condition, nodes, locals)
     IN IF value.abort THEN Die
        ELSE /\ visited' = id
             /\ parentMap' = Put(parentMap, id, parent)
             /\ parent' = id
             /\ nodes' = value.nodes
             /\ stack' = Append(stack,
                                [Frame("if", id, 0) EXCEPT
                                   !.condition = value.node,
                                   !.initialState = locals])
             /\ UNCHANGED << writer, func, locals, breakStates, sets, setNodeMap,
                             expressionConditionMap, aborted, undone >>

\* a visitIf that walks ifFalse from the state the true arm left
EnterIfFalse_continues ==
  /\ ~aborted
  /\ stack # << >>
  /\ top.kind = "if"
  /\ stack' = Append(pop, [top EXCEPT !.kind = "else",
                                      !.afterIfTrueState = locals])
  /\ UNCHANGED << writer, func, nodes, locals, breakStates, sets, setNodeMap,
                  expressionConditionMap, parentMap, parent, visited, aborted, undone >>

\* Builder::visitIf, lines 220-222: between ifTrue and ifFalse
EnterIfFalse ==
  /\ ~aborted
  /\ stack # << >>
  /\ top.kind = "if"
  /\ stack' = Append(pop, [top EXCEPT !.kind = "else",
                                      !.afterIfTrueState = locals])
  /\ locals' = top.initialState
  /\ UNCHANGED << writer, func, nodes, breakStates, sets, setNodeMap,
                  expressionConditionMap, parentMap, parent, visited, aborted, undone >>

\* the states visitIf hands to mergeIf, as << aState, bState >>
ifStates(frame, state) ==
  IF frame.kind = "else" THEN << frame.afterIfTrueState, state >>
  ELSE << frame.initialState, state >>

\* Builder::visitIf, lines 224-230: the merge
ExitIf ==
  /\ ~aborted
  /\ stack # << >>
  /\ top.kind \in {"if", "else"}
  /\ LET states == ifStates(top, locals)
         merged == mergeIf(states[1], states[2], top.condition, locals, nodes)
     IN IF merged.abort THEN Die
        ELSE /\ nodes' = merged.nodes
             /\ locals' = merged.locals
             /\ expressionConditionMap' =
                  IF merged.conditions = << >> THEN expressionConditionMap
                  ELSE Put(expressionConditionMap, top.id, merged.conditions)
             /\ parent' = top.oldParent
             /\ stack' = pop
             /\ UNCHANGED << writer, func, breakStates, sets, setNodeMap, parentMap,
                             visited, aborted, undone >>

\* Builder::visitLoop, lines 249-261: up to the visit of the body.  On an
\* unreachable path locals[i] is written out of bounds: the process dies
\* here, or the writes land outside the (empty) state.
EnterLoop(named) ==
  /\ CanOpen
  /\ LET id == visited + 1 IN
     IF ~named
     THEN /\ visited' = id
          /\ stack' = Append(stack, Frame("loop", id, 0))
          /\ UNCHANGED << writer, func, nodes, locals, breakStates, sets, setNodeMap,
                          expressionConditionMap, parentMap, parent, aborted, undone >>
     ELSE LET made == makeLoopVars(nodes, locals, 1) IN
          \/ /\ visited' = id
             /\ nodes' = made.nodes
             /\ locals' = made.locals
             /\ stack' = Append(stack,
                                [Frame("loop", id, id) EXCEPT
                                   !.previous = locals,
                                   !.vars = made.locals,
                                   !.firstNodeFromLoop = Len(made.nodes)])
             /\ UNCHANGED << writer, func, breakStates, sets, setNodeMap,
                             expressionConditionMap, parentMap, parent, aborted, undone >>
          \/ /\ isInUnreachable(locals)
             /\ Die

\* Builder::visitLoop, lines 265-305: after the body
ExitLoop ==
  /\ ~aborted
  /\ stack # << >>
  /\ top.kind = "loop"
  /\ IF top.name = 0
     THEN /\ stack' = pop
          /\ UNCHANGED << writer, func, nodes, locals, breakStates, sets, setNodeMap,
                          expressionConditionMap, parentMap, parent, visited,
                          aborted, undone >>
     ELSE LET breaks == IF top.name \in DOMAIN breakStates
                        THEN breakStates[top.name] ELSE << >>
          IN IF isInUnreachable(top.vars)
             THEN \* vars[i] and previous[i] are read out of bounds
                  \/ Die
                  \/ /\ breakStates' = Put(breakStates, top.name, breaks)
                     /\ stack' = pop
                     /\ UNCHANGED << writer, func, nodes, locals, sets, setNodeMap,
                                     expressionConditionMap, parentMap, parent,
                                     visited, aborted, undone >>
             ELSE \E garbage \in [1..numLocals -> BOOLEAN] :
                    LET resolved == resolveLoop(top, breaks, garbage, nodes,
                                                locals, 1)
                    IN \/ /\ nodes' = resolved.nodes
                          /\ locals' = resolved.locals
                          /\ breakStates' = Put(breakStates, top.name, breaks)
                          /\ stack' = pop
                          /\ undone' = undone \cup resolved.undone
                          /\ UNCHANGED << writer, func, sets, setNodeMap,
                                          expressionConditionMap, parentMap,
                                          parent, visited, aborted >>
                       \/ /\ resolved.undefined
                          /\ Die

\* Builder::visitBreak
VisitBreak(name, conditional) ==
  /\ CanVisit
  /\ name \in Labels
  /\ visited' = visited + 1
  /\ breakStates' = pushBreakState(breakStates, name, locals)
  /\ locals' = IF ~conditional THEN setInUnreachable ELSE locals
  /\ UNCHANGED << writer, func, nodes, sets, setNodeMap, expressionConditionMap,
                  parentMap, parent, stack, aborted, undone >>

\* the snapshots visitSwitch takes, one for each distinct target
RECURSIVE pushBreakStates(_, _, _)
pushBreakStates(map, targets, state) ==
  IF targets = {} THEN map
  ELSE LET target == CHOOSE t \in targets : TRUE IN
       pushBreakStates(pushBreakState(map, target, state),
                       targets \ {target}, state)

\* Builder::visitSwitch
VisitSwitch(targets) ==
  /\ CanVisit
  /\ targets # {}
  /\ targets \subseteq Labels
  /\ visited' = visited + 1
  /\ breakStates' = pushBreakStates(breakStates, targets, locals)
  /\ locals' = setInUnreachable
  /\ UNCHANGED << writer, func, nodes, sets, setNodeMap, expressionConditionMap,
                  parentMap, parent, stack, aborted, undone >>

\* a visitReturn that leaves the local state as it is
VisitReturn_continues ==
  /\ CanVisit
  /\ visited' = visited + 1
  /\ UNCHANGED << writer, func, nodes, locals, breakStates, sets, setNodeMap,
                  expressionConditionMap, parentMap, parent, stack, aborted, undone >>

\* Builder::visitReturn
VisitReturn ==
  /\ CanVisit
  /\ visited' = visited + 1
  /\ locals' = setInUnreachable
  /\ UNCHANGED << writer, func, nodes, breakStates, sets, setNodeMap,
                  expressionConditionMap, parentMap, parent, stack, aborted, undone >>

\* Builder::visitUnreachable
VisitUnreachable ==
  /\ CanVisit
  /\ visited' = visited + 1
  /\ locals' = setInUnreachable
  /\ UNCHANGED << writer, func, nodes, breakStates, sets, setNodeMap,
                  expressionConditionMap, parentMap, parent, stack, aborted, undone >>

Next ==
  \/ \E curr \in SetLocals : VisitSetLocal(curr)
  \/ \E named \in BOOLEAN : EnterBlock(named)
  \/ ExitBlock
  \/ \E condition \in Conditions : EnterIf(condition)
  \/ EnterIfFalse
  \/ ExitIf
  \/ \E named \in BOOLEAN : EnterLoop(named)
  \/ ExitLoop
  \/ \E name \in Labels, conditional \in BOOLEAN : VisitBreak(name, conditional)
  \/ \E targets \in SUBSET Labels : VisitSwitch(targets)
  \/ VisitReturn
  \/ VisitUnreachable

Spec == Init /\ [][Next]_vars

-----------------------------------------------------------------------------
(* The walk of bodies over 32-bit and 64-bit values: comparisons of i64    *)
(* operands, selects and zero-comparisons, in ifs and labelled loops.      *)

\* Function: an i32 parameter a, an i64 parameter b and an i64 local c
ValueFuncs == { [types |-> << I32, I64, I64 >>, numParams |-> 2] }

\* the local.set statements: [index, value]
ValueSets ==
  { [index |-> 1, value |-> Binary("LtSInt64", GetLocal(2), GetLocal(3))],
    [index |-> 1, value |-> Unary("EqZInt64", GetLocal(2))],
    [index |-> 1, value |-> Binary("AddInt32", GetLocal(1), Const(I32, 1))],
    [index |-> 1, value |-> Select(I32, GetLocal(1), Const(I32, 1), GetLocal(1))],
    [index |-> 2, value |-> Select(I64, GetLocal(2), GetLocal(3), GetLocal(1))],
    [index |-> 1, value |-> Host] }

ValueInit == Constructed(ValueFuncs)

ValueNext ==
  \/ \E curr \in ValueSets : VisitSetLocal(curr)
  \/ EnterIf(GetLocal(1))
  \/ EnterIfFalse
  \/ ExitIf
  \/ EnterLoop(TRUE)
  \/ ExitLoop
  \/ \E name \in Labels, conditional \in BOOLEAN : VisitBreak(name, conditional)

ValueSpec == ValueInit /\ [][ValueNext]_vars

-----------------------------------------------------------------------------
(* The constructor on every signature of up to MaxLocals locals, followed  *)
(* by a body that ends the path at once.                                   *)

\* Bodies whose local.sets include one of a value that ends the path,
\* `(local.set $i (unreachable))`, among blocks and ifs.
PathEndingSets == { [index |-> 1, value |-> Unreachable] }

AllSets == SetLocals \cup PathEndingSets

SetNext ==
  \/ \E curr \in AllSets : VisitSetLocal(curr)
  \/ \E named \in BOOLEAN : EnterBlock(named)
  \/ ExitBlock
  \/ \E condition \in Conditions : EnterIf(condition)
  \/ EnterIfFalse
  \/ ExitIf

SetSpec == Init /\ [][SetNext]_vars

\* Function: every choice of types and of the number of parameters
Signatures ==
  UNION { { [types |-> types, numParams |-> numParams] :
              types \in [1..n -> {I32, I64, F32}], numParams \in 0..n } :
          n \in 1..MaxLocals }

SignatureInit == Constructed(Signatures)

SignatureNext == VisitReturn \/ VisitUnreachable

SignatureSpec == SignatureInit /\ [][SignatureNext]_vars


-----------------------------------------------------------------------------
(* The binary writer, src/stack/stack.cpp.                                 *)

unreachable == "unreachable"

\* an absent child (Expression* that is null), an absent Name
nullptr == [kind |-> "nullptr"]
NoName == ""

\* curr->type of the expressions that have no type field in this model
typeOf(curr) ==
  CASE curr.kind = "Nop" -> None
    [] curr.kind = "Unreachable" -> unreachable
    [] curr.kind = "GetLocal" -> I32
    [] OTHER -> curr.type

present(children) == SelectSeq(children, LAMBDA child : child # nullptr)

\* some of the children has the type unreachable
anyUnreachable(children) ==
  \E i \in 1..Len(children) :
    children[i] # nullptr /\ typeOf(children[i]) = unreachable

\* the expressions that curr holds, in the order of their evaluation
childrenOf(curr) ==
  CASE curr.kind = "Block" -> curr.list
    [] curr.kind = "Break" -> present(<< curr.value, curr.condition >>)
    [] curr.kind = "Switch" -> present(<< curr.value, curr.condition >>)
    [] curr.kind \in {"Call", "CallImport"} -> curr.operands
    [] curr.kind = "CallIndirect" -> Append(curr.operands, curr.target)
    [] curr.kind = "If" ->
         present(<< curr.condition, curr.ifTrue, curr.ifFalse >>)
    [] curr.kind = "Loop" -> << curr.body >>
    [] OTHER -> << >>

\* the names that the branches and switches of curr target
RECURSIVE branchTargets(_)
branchTargets(curr) ==
  LET own == CASE curr.kind = "Break" -> { curr.name }
               [] curr.kind = "Switch" ->
                    { curr.targets[i] : i \in 1..Len(curr.targets) }
                      \cup { curr.default }
               [] OTHER -> {}
      children == childrenOf(curr)
  IN own \cup UNION { branchTargets(children[i]) : i \in 1..Len(children) }

\* Block::finalize: a block that is branched to is not unreachable; another
\* one is unreachable when a child is, and else has the type of its last child
makeBlock(name, list) ==
  [kind |-> "Block", name |-> name, list |-> list,
   type |-> IF name # NoName
               /\ \E i \in 1..Len(list) : name \in branchTargets(list[i])
            THEN IF typeOf(list[Len(list)]) = unreachable THEN None
                 ELSE typeOf(list[Len(list)])
            ELSE IF anyUnreachable(list) THEN unreachable
            ELSE typeOf(list[Len(list)])]

\* Break::finalize
makeBreak(name, value, condition) ==
  [kind |-> "Break", name |-> name, value |-> value, condition |-> condition,
   type |-> IF condition = nullptr THEN unreachable
            ELSE IF anyUnreachable(<< value, condition >>) THEN unreachable
            ELSE IF value # nullptr THEN typeOf(value)
            ELSE None]

\* Switch::finalize
makeSwitch(targets, default, condition, value) ==
  [kind |-> "Switch", targets |-> targets, default |-> default,
   condition |-> condition, value |-> value, type |-> unreachable]

\* Call::finalize of a call of a function that returns nothing
makeCall(target, operands) ==
  [kind |-> "Call", target |-> target, operands |-> operands,
   type |-> IF anyUnreachable(operands) THEN unreachable ELSE None]

\* CallImport::finalize
makeCallImport(target, operands) ==
  [kind |-> "CallImport", target |-> target, operands |-> operands,
   type |-> IF anyUnreachable(operands) THEN unreachable ELSE None]

\* CallIndirect::finalize
makeCallIndirect(fullType, operands, target) ==
  [kind |-> "CallIndirect", fullType |-> fullType, operands |-> operands,
   target |-> target,
   type |-> IF anyUnreachable(Append(operands, target)) THEN unreachable
            ELSE None]

makeNop == [kind |-> "Nop"]

\* BranchUtils::isBranchReachable(Switch*)
isBranchReachable(curr) == ~anyUnreachable(<< curr.value, curr.condition >>)

\* what goes to the buffer: o << int8_t(op), o << U32LEB(x), o << S32LEB(x),
\* o << binaryType(type)
int8(op) == [int8 |-> op]
U32LEB(x) == [u32 |-> x]
S32LEB(x) == [s32 |-> x]
binaryType(type) == [type |-> type]

\* the indexes of the module: the imports come first
getFunctionIndex(name) == IF name = "imported" THEN 0 ELSE 1
getFunctionTypeIndex(fullType) == 0
mappedLocals(index) == index - 1

\* Writer::getBreakIndex, were a name that is not found to give index 0
RECURSIVE getBreakIndexOrZero(_, _, _)
getBreakIndexOrZero(stk, name, i) ==
  IF i < 0 THEN [index |-> 0, abort |-> FALSE]
  ELSE IF stk[i + 1] = name
       THEN [index |-> Len(stk) - 1 - i, abort |-> FALSE]
       ELSE getBreakIndexOrZero(stk, name, i - 1)

\* Writer::getBreakIndex: the loop from i downwards (i is 0-based)
RECURSIVE getBreakIndex(_, _, _)
getBreakIndex(stk, name, i) ==
  IF i < 0 THEN [index |-> -1, abort |-> TRUE]
  ELSE IF stk[i + 1] = name
       THEN [index |-> Len(stk) - 1 - i, abort |-> FALSE]
       ELSE getBreakIndex(stk, name, i - 1)

\* maximal nesting of blocks in the expression that is written
MaxNesting == 2

Names == { "a", "b" }

Operands ==
  { << >>,
    << Const(I32, 1), GetLocal(1) >>,
    << Const(I32, 1), Unreachable >> }

Calls ==
  { makeCall("defined", operands) : operands \in Operands }
    \cup { makeCallImport("imported", operands) : operands \in Operands }
    \cup { makeCallIndirect("v", operands, target) :
             operands \in Operands, target \in { GetLocal(1), Unreachable } }

Breaks ==
  { makeBreak(name, nullptr, condition) :
      name \in Names, condition \in { nullptr, GetLocal(1), Unreachable } }

Switches ==
  { makeSwitch(targets, "a", condition, value) :
      targets \in { << "a", "b" >>, << "b" >> },
      condition \in { GetLocal(1), Unreachable },
      value \in { nullptr, Const(I32, 1) } }

Statements == Calls \cup Breaks \cup Switches \cup { makeNop, Unreachable }

\* the expressions of at most depth nested blocks
RECURSIVE Bodies(_)
Bodies(depth) ==
  IF depth = 0 THEN Statements
  ELSE LET inner == Bodies(depth - 1) IN
       inner \cup { makeBlock(name, list) :
                      name \in Names \cup { NoName },
                      list \in { << child >> : child \in inner }
                                 \cup { << child, makeNop >> : child \in inner } }

\* what is left to do: recurse(curr), and the rest of the visitor of curr
\* that runs after the visits of its children; start is o.size() when the
\* visitor was entered
Recurse(curr) == [k |-> "recurse", curr |-> curr]
Rest(curr, start) == [k |-> "rest", curr |-> curr, start |-> start]

recurseAll(children) == [i \in 1..Len(children) |-> Recurse(children[i])]

\* the Writer is entering the visitor of an expression of this kind
Visiting(kind) ==
  /\ ~aborted
  /\ work # << >>
  /\ Head(work).k = "recurse"
  /\ Head(work).curr.kind = kind

\* the Writer has visited the children of an expression of this kind
Resuming(kind) ==
  /\ ~aborted
  /\ work # << >>
  /\ Head(work).k = "rest"
  /\ Head(work).curr.kind = kind

\* the visitor of curr returns, having written what follows o
Return(curr, start, written) ==
  /\ o' = o \o written
  /\ work' = Tail(work)
  /\ spans' = Append(spans, [curr |-> curr, start |-> start,
                             stop |-> Len(o) + Len(written)])

\* the visitor of curr visits its children
Descend(curr, children) ==
  /\ work' = recurseAll(children) \o << Rest(curr, Len(o)) >> \o Tail(work)
  /\ UNCHANGED << o, breakStack, spans, dataflow, aborted >>

\* no DataFlow builder runs
NoBuilder ==
  /\ func = [types |-> << I32 >>, numParams |-> 1]
  /\ nodes = << >>
  /\ locals = << >>
  /\ breakStates = << >>
  /\ sets = << >>
  /\ setNodeMap = << >>
  /\ expressionConditionMap = << >>
  /\ parentMap = << >>
  /\ parent = 0
  /\ stack = << >>
  /\ visited = 0
  /\ undone = {}

\* Writer::Writer with builder.nodes holding one expression
WriterInit ==
  /\ NoBuilder
  /\ aborted = FALSE
  /\ o = << >>
  /\ breakStack = << >>
  /\ spans = << >>
  /\ \E curr \in Bodies(MaxNesting) : work = << Recurse(curr) >>

\* Writer::visitBlock, lines 66-73: up to the visits of the children
Writer_visitBlock ==
  /\ Visiting("Block")
  /\ LET curr == Head(work).curr IN
       /\ o' = o \o << int8("Block"),
                       binaryType(IF curr.type # unreachable THEN curr.type
                                  ELSE None) >>
       /\ breakStack' = Append(breakStack, curr.name)
       /\ work' = recurseAll(curr.list) \o << Rest(curr, Len(o)) >>
                    \o Tail(work)
       /\ UNCHANGED << spans, dataflow, aborted >>

\* visitBlock, were it to end every block with End alone
Writer_visitBlock_endOnly ==
  /\ Resuming("Block")
  /\ LET curr == Head(work).curr IN
       /\ breakStack' = SubSeq(breakStack, 1, Len(breakStack) - 1)
       /\ Return(curr, Head(work).start, << int8("End") >>)
       /\ UNCHANGED << dataflow, aborted >>

\* Writer::visitBlock, lines 74-87: after the visits of the children
Writer_visitBlock_end ==
  /\ Resuming("Block")
  /\ LET curr == Head(work).curr
         extra == IF curr.type = unreachable THEN << int8("Unreachable") >>
                  ELSE << >>
     IN /\ breakStack' = SubSeq(breakStack, 1, Len(breakStack) - 1)
        /\ Return(curr, Head(work).start, extra \o << int8("End") >> \o extra)
        /\ UNCHANGED << dataflow, aborted >>

\* Writer::visitBreak, lines 151-154: the visits of the value and condition
Writer_visitBreak ==
  /\ Visiting("Break")
  /\ Descend(Head(work).curr, childrenOf(Head(work).curr))

\* Writer::visitBreak, lines 155-166.  The opcode is written before or after
\* the call of getBreakIndex (the order of evaluation of the operands of <<
\* is that of the build), so a process that aborts has written it or not.
Writer_visitBreak_emit ==
  /\ Resuming("Break")
  /\ LET curr == Head(work).curr
         opcode == int8(IF curr.condition # nullptr THEN "BrIf" ELSE "Br")
         found == getBreakIndex(breakStack, curr.name, Len(breakStack) - 1)
     IN IF found.abort
        THEN /\ aborted' = TRUE
             /\ o' \in { o, Append(o, opcode) }
             /\ UNCHANGED << breakStack, work, spans, dataflow >>
        ELSE /\ Return(curr, Head(work).start,
                       << opcode, U32LEB(found.index) >>
                         \o IF curr.condition # nullptr
                               /\ curr.type = unreachable
                            THEN << int8("Unreachable") >> ELSE << >>)
             /\ UNCHANGED << breakStack, dataflow, aborted >>

\* Writer::visitSwitch, lines 171-174: the visits of the value and condition
Writer_visitSwitch ==
  /\ Visiting("Switch")
  /\ Descend(Head(work).curr, childrenOf(Head(work).curr))

\* the indexes of names[k..], up to the first name that is not found
RECURSIVE breakIndexes(_, _, _)
breakIndexes(stk, names, k) ==
  IF k > Len(names) THEN [written |-> << >>, abort |-> FALSE]
  ELSE LET found == getBreakIndex(stk, names[k], Len(stk) - 1) IN
       IF found.abort THEN [written |-> << >>, abort |-> TRUE]
       ELSE LET rest == breakIndexes(stk, names, k + 1) IN
            [written |-> << U32LEB(found.index) >> \o rest.written,
             abort |-> rest.abort]

\* visitSwitch, were it to write the table of every switch
Writer_visitSwitch_emitAlways ==
  /\ Resuming("Switch")
  /\ LET curr == Head(work).curr
         indexes == breakIndexes(breakStack,
                                 Append(curr.targets, curr.default), 1)
         written == << int8("TableSwitch"), U32LEB(Len(curr.targets)) >>
                      \o indexes.written
     IN IF indexes.abort
        THEN /\ aborted' = TRUE
             /\ o' = o \o written
             /\ UNCHANGED << breakStack, work, spans, dataflow >>
        ELSE /\ Return(curr, Head(work).start, written)
             /\ UNCHANGED << breakStack, dataflow, aborted >>

\* Writer::visitSwitch, lines 175-186
Writer_visitSwitch_emit ==
  /\ Resuming("Switch")
  /\ LET curr == Head(work).curr
         indexes == breakIndexes(breakStack,
                                 Append(curr.targets, curr.default), 1)
         written == << int8("TableSwitch"), U32LEB(Len(curr.targets)) >>
                      \o indexes.written
     IN IF ~isBranchReachable(curr)
        THEN /\ Return(curr, Head(work).start, << int8("Unreachable") >>)
             /\ UNCHANGED << breakStack, dataflow, aborted >>
        ELSE IF indexes.abort
        THEN /\ aborted' = TRUE
             /\ o' = o \o written
             /\ UNCHANGED << breakStack, work, spans, dataflow >>
        ELSE /\ Return(curr, Head(work).start, written)
             /\ UNCHANGED << breakStack, dataflow, aborted >>

\* Writer::visitCall, lines 191-193: the visits of the operands
Writer_visitCall ==
  /\ Visiting("Call")
  /\ Descend(Head(work).curr, childrenOf(Head(work).curr))

\* Writer::visitCall, lines 194-197
Writer_visitCall_emit ==
  /\ Resuming("Call")
  /\ LET curr == Head(work).curr IN
       Return(curr, Head(work).start,
              << int8("CallFunction"), U32LEB(getFunctionIndex(curr.target)) >>
                \o IF curr.type = unreachable THEN << int8("Unreachable") >>
                   ELSE << >>)
  /\ UNCHANGED << breakStack, dataflow, aborted >>

\* Writer::visitCallImport, lines 202-204: the visits of the operands
Writer_visitCallImport ==
  /\ Visiting("CallImport")
  /\ Descend(Head(work).curr, childrenOf(Head(work).curr))

\* Writer::visitCallImport, line 205
Writer_visitCallImport_emit ==
  /\ Resuming("CallImport")
  /\ LET curr == Head(work).curr IN
       Return(curr, Head(work).start,
              << int8("CallFunction"), U32LEB(getFunctionIndex(curr.target)) >>)
  /\ UNCHANGED << breakStack, dataflow, aborted >>

\* Writer::visitCallIndirect, lines 211-214: the visits of the operands and
\* of the target
Writer_visitCallIndirect ==
  /\ Visiting("CallIndirect")
  /\ Descend(Head(work).curr, childrenOf(Head(work).curr))

\* Writer::visitCallIndirect, lines 215-220
Writer_visitCallIndirect_emit ==
  /\ Resuming("CallIndirect")
  /\ LET curr == Head(work).curr IN
       Return(curr, Head(work).start,
              << int8("CallIndirect"),
                 U32LEB(getFunctionTypeIndex(curr.fullType)), U32LEB(0) >>
                \o IF curr.type = unreachable THEN << int8("Unreachable") >>
                   ELSE << >>)
  /\ UNCHANGED << breakStack, dataflow, aborted >>

\* Writer::visitGetLocal
Writer_visitGetLocal ==
  /\ Visiting("GetLocal")
  /\ LET curr == Head(work).curr IN
       Return(curr, Len(o),
              << int8("GetLocal"), U32LEB(mappedLocals(curr.index)) >>)
  /\ UNCHANGED << breakStack, dataflow, aborted >>

\* Writer::visitConst, case i32
Writer_visitConst ==
  /\ Visiting("Const")
  /\ LET curr == Head(work).curr IN
       Return(curr, Len(o), << int8("I32Const"), S32LEB(curr.lit) >>)
  /\ UNCHANGED << breakStack, dataflow, aborted >>

\* Writer::visitNop
Writer_visitNop ==
  /\ Visiting("Nop")
  /\ Return(Head(work).curr, Len(o), << int8("Nop") >>)
  /\ UNCHANGED << breakStack, dataflow, aborted >>

\* Writer::visitUnreachable
Writer_visitUnreachable ==
  /\ Visiting("Unreachable")
  /\ Return(Head(work).curr, Len(o), << int8("Unreachable") >>)
  /\ UNCHANGED << breakStack, dataflow, aborted >>

WriterNext ==
  \/ Writer_visitBlock
  \/ Writer_visitBlock_end
  \/ Writer_visitBreak
  \/ Writer_visitBreak_emit
  \/ Writer_visitSwitch
  \/ Writer_visitSwitch_emit
  \/ Writer_visitCall
  \/ Writer_visitCall_emit
  \/ Writer_visitCallImport
  \/ Writer_visitCallImport_emit
  \/ Writer_visitCallIndirect
  \/ Writer_visitCallIndirect_emit
  \/ Writer_visitGetLocal
  \/ Writer_visitConst
  \/ Writer_visitNop
  \/ Writer_visitUnreachable

WriterSpec == WriterInit /\ [][WriterNext]_vars

-----------------------------------------------------------------------------
(* The binary writer: ifs, loops and the contents of blocks.               *)

\* If::finalize
makeIf(condition, ifTrue, ifFalse) ==
  [kind |-> "If", condition |-> condition, ifTrue |-> ifTrue,
   ifFalse |-> ifFalse,
   type |-> IF ifFalse # nullptr /\ typeOf(ifTrue) = unreachable
               /\ typeOf(ifFalse) = unreachable
            THEN unreachable
            ELSE IF typeOf(condition) = unreachable THEN unreachable
            ELSE None]

\* Loop::finalize
makeLoop(name, body) ==
  [kind |-> "Loop", name |-> name, body |-> body, type |-> typeOf(body)]

\* the entry of the break stack for an if arm
IMPOSSIBLE_CONTINUE == "impossible-continue"

\* brokenTo, were every block that has a name branched to
nameIs(block) == block.name # NoName

\* brokenTo
brokenTo(block) == block.name # NoName /\ block.name \in branchTargets(block)

\* what the arms of the ifs and the bodies of the loops are: an expression,
\* or a block with or without a name, branched to or not
Arms ==
  LET leaves == { makeNop, Unreachable, makeCall("defined", << >>),
                  makeCallImport("imported", << Const(I32, 1) >>),
                  makeCallIndirect("v", << >>, GetLocal(1)),
                  makeSwitch(<< "b" >>, "a", GetLocal(1), nullptr),
                  makeBreak("a", nullptr, nullptr),
                  makeBreak("b", nullptr, GetLocal(1)) }
  IN leaves \cup { makeBlock(name, list) :
                     name \in Names \cup { NoName },
                     list \in { << child >> : child \in leaves }
                                \cup { << child, makeNop >> : child \in leaves } }

\* an if or a loop, alone or in a block that has a name
ControlBodies ==
  LET elses == { nullptr, makeNop, Unreachable,
                 makeBlock(NoName, << makeNop >>),
                 makeBlock(NoName, << Unreachable, makeNop >>) }
      inner == { makeIf(condition, ifTrue, ifFalse) :
                   condition \in { GetLocal(1), Unreachable },
                   ifTrue \in Arms, ifFalse \in elses }
                 \cup { makeLoop(name, body) :
                          name \in Names \cup { NoName }, body \in Arms }
  IN inner \cup { makeBlock(name, list) :
                    name \in Names,
                    list \in { << child >> : child \in inner }
                               \cup { << child, makeNop >> : child \in inner } }

ControlInit ==
  /\ NoBuilder
  /\ aborted = FALSE
  /\ o = << >>
  /\ breakStack = << >>
  /\ spans = << >>
  /\ \E curr \in ControlBodies : work = << Recurse(curr) >>

\* the visitor has done the part of the visit of curr that k names
Resumes(k, kind) ==
  /\ ~aborted
  /\ work # << >>
  /\ Head(work).k = k
  /\ Head(work).curr.kind = kind

\* visitor(curr), to be followed by the part k of the visit of the caller
Then(visitor, curr, k, caller) ==
  << [k |-> visitor, curr |-> curr],
     [k |-> k, curr |-> caller.curr, start |-> caller.start] >> \o Tail(work)

\* Writer::visitIf, up to the visit of the condition (lines 96-103)
Writer_visitIf ==
  /\ Visiting("If")
  /\ Descend(Head(work).curr, << Head(work).curr.condition >>)

\* visitIf, were it to write the if whatever the type of the condition
Writer_visitIf_always ==
  /\ Resuming("If")
  /\ LET curr == Head(work).curr IN
       /\ o' = o \o << int8("If"),
                       binaryType(IF curr.type # unreachable THEN curr.type
                                  ELSE None) >>
       /\ breakStack' = Append(breakStack, IMPOSSIBLE_CONTINUE)
       /\ work' = Then("recursePossibleBlockContents", curr.ifTrue,
                       "else", Head(work))
       /\ UNCHANGED << spans, dataflow, aborted >>

\* Writer::visitIf, lines 96-107: after the visit of the condition
Writer_visitIf_then ==
  /\ Resuming("If")
  /\ LET curr == Head(work).curr IN
       IF typeOf(curr.condition) = unreachable
       THEN /\ Return(curr, Head(work).start, << int8("Unreachable") >>)
            /\ UNCHANGED << breakStack, dataflow, aborted >>
       ELSE /\ o' = o \o << int8("If"),
                            binaryType(IF curr.type # unreachable
                                       THEN curr.type ELSE None) >>
            /\ breakStack' = Append(breakStack, IMPOSSIBLE_CONTINUE)
            /\ work' = Then("recursePossibleBlockContents", curr.ifTrue,
                            "else", Head(work))
            /\ UNCHANGED << spans, dataflow, aborted >>

\* visitIf, were it to keep the entry of the true arm on the break stack
Writer_visitIf_elseUnpopped ==
  /\ Resumes("else", "If")
  /\ LET curr == Head(work).curr IN
       IF curr.ifFalse # nullptr
       THEN /\ o' = Append(o, int8("Else"))
            /\ breakStack' = Append(breakStack, IMPOSSIBLE_CONTINUE)
            /\ work' = Then("recursePossibleBlockContents", curr.ifFalse,
                            "end", Head(work))
            /\ UNCHANGED << spans, dataflow, aborted >>
       ELSE /\ breakStack' = breakStack
            /\ Return(curr, Head(work).start, << int8("End") >>)
            /\ UNCHANGED << dataflow, aborted >>

\* Writer::visitIf, lines 108-112, and 115 for an if with no else: after the
\* true arm
Writer_visitIf_else ==
  /\ Resumes("else", "If")
  /\ LET curr == Head(work).curr
         popped == SubSeq(breakStack, 1, Len(breakStack) - 1)
     IN IF curr.ifFalse # nullptr
        THEN /\ o' = Append(o, int8("Else"))
             /\ breakStack' = Append(popped, IMPOSSIBLE_CONTINUE)
             /\ work' = Then("recursePossibleBlockContents", curr.ifFalse,
                             "end", Head(work))
             /\ UNCHANGED << spans, dataflow, aborted >>
        ELSE /\ breakStack' = popped
             /\ Return(curr, Head(work).start, << int8("End") >>)
             /\ UNCHANGED << dataflow, aborted >>

\* Writer::visitIf, lines 113-123: after the false arm
Writer_visitIf_end ==
  /\ Resumes("end", "If")
  /\ LET curr == Head(work).curr IN
       /\ breakStack' = SubSeq(breakStack, 1, Len(breakStack) - 1)
       /\ Return(curr, Head(work).start,
                 << int8("End") >>
                   \o IF curr.type = unreachable
                      THEN << int8("Unreachable") >> ELSE << >>)
       /\ UNCHANGED << dataflow, aborted >>

\* Writer::visitLoop, lines 127-130: up to the visit of the body
Writer_visitLoop ==
  /\ Visiting("Loop")
  /\ LET curr == Head(work).curr IN
       /\ o' = o \o << int8("Loop"),
                       binaryType(IF curr.type # unreachable THEN curr.type
                                  ELSE None) >>
       /\ breakStack' = Append(breakStack, curr.name)
       /\ work' = Then("recursePossibleBlockContents", curr.body, "rest",
                       [curr |-> curr, start |-> Len(o)])
       /\ UNCHANGED << spans, dataflow, aborted >>

\* Writer::visitLoop, lines 131-136: after the visit of the body
Writer_visitLoop_end ==
  /\ Resuming("Loop")
  /\ LET curr == Head(work).curr IN
       /\ breakStack' = SubSeq(breakStack, 1, Len(breakStack) - 1)
       /\ Return(curr, Head(work).start,
                 << int8("End") >>
                   \o IF curr.type = unreachable
                      THEN << int8("Unreachable") >> ELSE << >>)
       /\ UNCHANGED << dataflow, aborted >>

\* Writer::recursePossibleBlockContents, lines 38-45: up to the visits of the
\* children
Writer_recursePossibleBlockContents ==
  /\ ~aborted
  /\ work # << >>
  /\ Head(work).k = "recursePossibleBlockContents"
  /\ LET curr == Head(work).curr IN
       work' = IF curr.kind # "Block" \/ brokenTo(curr)
               THEN << Recurse(curr) >> \o Tail(work)
               ELSE recurseAll(curr.list)
                      \o << [k |-> "contents", curr |-> curr,
                             start |-> Len(o)] >> \o Tail(work)
  /\ UNCHANGED << o, breakStack, spans, dataflow, aborted >>

\* Writer::recursePossibleBlockContents, lines 46-50: after the children
Writer_recursePossibleBlockContents_end ==
  /\ Resumes("contents", "Block")
  /\ LET curr == Head(work).curr IN
       Return(curr, Head(work).start,
              IF curr.type = unreachable
                 /\ typeOf(curr.list[Len(curr.list)]) # unreachable
              THEN << int8("Unreachable") >> ELSE << >>)
  /\ UNCHANGED << breakStack, dataflow, aborted >>

ControlNext ==
  \/ WriterNext
  \/ Writer_visitIf
  \/ Writer_visitIf_then
  \/ Writer_visitIf_else
  \/ Writer_visitIf_end
  \/ Writer_visitLoop
  \/ Writer_visitLoop_end
  \/ Writer_recursePossibleBlockContents
  \/ Writer_recursePossibleBlockContents_end

ControlSpec == ControlInit /\ [][ControlNext]_vars



-----------------------------------------------------------------------------
(* Properties.                                                             *)

\* the build of a function body has ended
Built == stack = << >> /\ ~aborted

NodeIds == 1..Len(nodes)

\* the child references of node n
Children(ns, n) == { ns[n].values[v] : v \in 1..Len(ns[n].values) }

\* C1: Bad-propagation.  At the end of the build of a function body no Expr
\* node of the arena has the canonical Bad node as a child.
C1_NoBadChildOfExpr ==
  Built => \A n \in NodeIds : nodes[n].type = "Expr" => Bad \notin Children(nodes, n)

\* what the specification rewrites a Gt or Ge to: Lt or Le of the same
\* signedness and width, with the operands swapped
normalized(op) ==
  CASE op = "GtSInt32" -> "LtSInt32"
    [] op = "GtSInt64" -> "LtSInt64"
    [] op = "GeSInt32" -> "LeSInt32"
    [] op = "GeSInt64" -> "LeSInt64"
    [] op = "GtUInt32" -> "LtUInt32"
    [] op = "GtUInt64" -> "LtUInt64"
    [] op = "GeUInt32" -> "LeUInt32"
    [] op = "GeUInt64" -> "LeUInt64"

\* the truth value of the comparison `a op b` on small non-negative operands
\* (on which the signed and the unsigned orders agree)
holds(op, a, b) ==
  CASE op \in {"LtSInt32", "LtSInt64", "LtUInt32", "LtUInt64"} -> a < b
    [] op \in {"LeSInt32", "LeSInt64", "LeUInt32", "LeUInt64"} -> a <= b
    [] op \in {"GtSInt32", "GtSInt64", "GtUInt32", "GtUInt64"} -> a > b
    [] op \in {"GeSInt32", "GeSInt64", "GeUInt32", "GeUInt64"} -> a >= b

\* the local.sets recorded whose value is a Gt or Ge the builder supports
FlippedSets ==
  { k \in 1..Len(sets) :
      /\ sets[k].value.kind = "Binary"
      /\ sets[k].value.op \in FlippedBinaryOps
      /\ ~isBad(setNodeMap[sets[k].id]) }

\* C2: Comparison normalization.  The Expr built for `a Gt b` has the operator
\* Lt, the one built for `a Ge b` the operator Le, of the same signedness, on
\* the swapped operands (b, a); it is no Gt or Ge, and it has the truth value
\* of the source comparison for all a, b.
C2_GtGeNormalized ==
  \A k \in FlippedSets :
    LET source == sets[k].value.op
        built == nodes[setNodeMap[sets[k].id]].op
    IN /\ built = normalized(source)
       /\ built \notin FlippedBinaryOps
       /\ \A a, b \in 0..1 : holds(built, b, a) = holds(source, a, b)

\* a Zext stands for the predicate it extends
unwrap(ns, node) ==
  IF ~isBad(node) /\ ns[node].type = "Zext" THEN ns[node].values[1] ELSE node

\* this step is the merge that ends an if
IsIfMerge ==
  /\ ~aborted /\ ~aborted'
  /\ stack # << >>
  /\ top.kind \in {"if", "else"}
  /\ stack' = pop

\* the local state at the end of the true arm, and the one of the path on
\* which the true arm was not taken
trueArmState == IF top.kind = "else" THEN top.afterIfTrueState ELSE locals

otherArmState == IF top.kind = "else" THEN locals ELSE top.initialState

\* the locals for which this step allocated a Phi
NewPhis ==
  { i \in 1..Len(locals') :
      locals'[i] > Len(nodes) /\ nodes'[locals'[i]].type = "Phi" }

\* C3: Phi/condition correspondence at an if join.  Input k of a Phi that the
\* merge of an if creates is the value of the local on the path that the k-th
\* condition of its Block gates: the end of the true arm under `C != 0`, the
\* path on which the true arm was not taken under `C == 0`.
C3_PhiInputsMatchConditions ==
  [][IsIfMerge =>
       \A i \in NewPhis :
         LET phi == nodes'[locals'[i]]
             block == nodes'[phi.values[1]]
             conditions == expressionConditionMap'[top.id]
         IN \A k \in 1..Len(block.values) :
              LET cond == block.values[k]
                  input == unwrap(nodes', phi.values[k + 1])
              IN ~isBad(cond) =>
                   /\ nodes'[cond].values[2] = conditions[1]
                        => input = trueArmState[i]
                   /\ nodes'[cond].values[2] = conditions[2]
                        => input = otherArmState[i]]_vars

\* C4: Loop-phi resolution success leaves no trace of the Var.  A Var that
\* resolution has undone is a child of no node of the arena, right after the
\* loop and at every later point of the build.
C4_UndoneVarIsNoChild ==
  \A var \in undone : \A n \in NodeIds : var \notin Children(nodes, n)


\* this step ends the visit of a labelled loop (and the process lives on)
IsLoopExit ==
  /\ ~aborted /\ ~aborted'
  /\ stack # << >>
  /\ top.kind = "loop"
  /\ top.name # 0
  /\ stack' = pop

\* the snapshots taken by the branches to the loop that is being left
loopBreaks ==
  IF top.name \in DOMAIN breakStates THEN breakStates[top.name] ELSE << >>

\* no local.set was recorded since the loop was entered
BodyWritesNoLocal == \A k \in 1..Len(sets) : sets[k].id < top.id

\* node is referred to by a child reference of a node or by a slot of state
Referenced(ns, state, node) ==
  \/ \E n \in 1..Len(ns) : node \in Children(ns, n)
  \/ \E i \in 1..Len(state) : state[i] = node

\* C5: Loop with untouched locals.  After a labelled loop whose body writes
\* no local and branches to the loop, the local state (where the path that
\* leaves the loop is Reachable) maps every local i to previous[i], and no
\* Var created for the loop remains: no node and no local slot refers to one.
C5_UntouchedLoopRestoresLocals ==
  [][(IsLoopExit /\ BodyWritesNoLocal /\ loopBreaks # << >>) =>
       /\ ~isInUnreachable(locals') => locals' = top.previous
       /\ \A i \in 1..Len(top.vars) :
            ~isBad(top.vars[i]) => ~Referenced(nodes', locals', top.vars[i])]_vars

\* a branch to the loop being left took a snapshot whose slot i is equal, as
\* nodes of the arena ns, neither to the Var of local i nor to its value
\* before the loop
ModifiedAtBranch(ns, i) ==
  \E k \in 1..Len(loopBreaks) :
    /\ ~isInUnreachable(loopBreaks[k])
    /\ ~NodeEq(ns, loopBreaks[k][i], top.vars[i])
    /\ ~NodeEq(ns, loopBreaks[k][i], top.previous[i])

references(ns, condBlock) ==
  [n \in 1..Len(ns) |->
     { ns[n].values[v] :
         v \in { w \in 1..Len(ns[n].values) :
                   /\ ns[n].values[w] \notin {Bad, Null}
                   /\ condBlock \/ ns[n].type # "Cond" \/ w # 1 } }]

\* the nodes from which every path of references ends: the least set that
\* holds a node once it holds all that the node refers to
RECURSIVE grounded(_, _)
grounded(refs, S) ==
  LET T == { n \in DOMAIN refs : refs[n] \subseteq S } IN
  IF T = S THEN S ELSE grounded(refs, T)

acyclic(refs) == grounded(refs, {}) = DOMAIN refs

\* C7 as stated: after the build of a function body the graph of all the
\* node-to-node references of the arena (operands, Phi inputs and owning
\* Block, Block conditions, Cond block and predicate, Zext inner) is a DAG.
C7_AllReferencesAcyclic == Built => acyclic(references(nodes, TRUE))

\* C7, amended: at every point of the build the graph of the references of
\* the arena without the reference of a Cond to its Block is a DAG, and each
\* Cond refers to a Block that lists it among its conditions: a node reaches
\* itself only through a Block and one of its own Conds.
C7_AcyclicButCondBlock ==
  ~aborted =>
    /\ acyclic(references(nodes, FALSE))
    /\ \A n \in NodeIds :
         nodes[n].type = "Cond" =>
           /\ nodes[nodes[n].values[1]].type = "Block"
           /\ n \in Children(nodes, nodes[n].values[1])

\* a function body was built in which a merge made a Block with a Cond and
\* loop-phi resolution undid a Var
C7_Witness ==
  /\ Built
  /\ undone # {}
  /\ \E n \in NodeIds : nodes[n].type = "Cond"

\* this step is the merge that ends a labelled block that was branched to
IsBlockMerge ==
  /\ ~aborted /\ ~aborted'
  /\ stack # << >>
  /\ top.kind = "block"
  /\ top.name \in DOMAIN breakStates
  /\ stack' = pop

IsMerge == IsIfMerge \/ IsBlockMerge

\* the local states that flow into the merge of this step, and the
\* Reachable ones among them
mergeInputs ==
  IF top.kind = "block" THEN Append(breakStates[top.name], locals)
  ELSE << trueArmState, otherArmState >>

reachableInputs == SelectSeq(mergeInputs, LAMBDA state : state # << >>)

\* the nodes of the given variant that this step allocated
NewNodes(type) ==
  { n \in (Len(nodes) + 1)..Len(nodes') : nodes'[n].type = type }

\* C8: merge ignores Unreachable inputs.  If exactly one input state is
\* Reachable, the output local state is that input, slot for slot, and the
\* merge allocates no Phi and no Block; if none is, the output stays
\* Unreachable.
C8_MergeIgnoresUnreachable ==
  [][IsMerge =>
       /\ Len(reachableInputs) = 1 =>
            /\ locals' = reachableInputs[1]
            /\ NewNodes("Phi") = {}
            /\ NewNodes("Block") = {}
       /\ Len(reachableInputs) = 0 =>
            /\ isInUnreachable(locals')
            /\ NewNodes("Phi") = {}
            /\ NewNodes("Block") = {}]_vars

\* a labelled block was left whose only Reachable input was the snapshot of
\* an unconditional branch: the fall-through path was Unreachable
C8_Witness ==
  /\ Built
  /\ \E name \in DOMAIN breakStates \cap DOMAIN parentMap :
       LET states == breakStates[name] IN
       /\ Len(states) = 2
       /\ ~isInUnreachable(states[1])
       /\ isInUnreachable(states[2])
       /\ locals = states[1]

\* the nodes that the Reachable inputs of this step's merge hold for local i
inputSlots(i) ==
  { reachableInputs[k][i] : k \in 1..Len(reachableInputs) }

\* C9: Phi and Block are created only on real divergence.  In a merge of two
\* or more Reachable inputs a Phi is allocated for local i exactly when no
\* input slot i is Bad and the input slots i are not all the same reference;
\* when they are all the same reference the output slot i is that reference.
\* One merge allocates at most one Block, and only if it allocates a Phi; all
\* the Phis of the merge share that Block.
C9_PhiOnlyOnDivergence ==
  [][(IsMerge /\ Len(reachableInputs) >= 2) =>
       /\ \A i \in 1..numLocals :
            /\ i \in NewPhis <=>
                 (Bad \notin inputSlots(i) /\ Cardinality(inputSlots(i)) > 1)
            /\ Cardinality(inputSlots(i)) = 1 => locals'[i] \in inputSlots(i)
       /\ NewNodes("Phi") = { locals'[i] : i \in NewPhis }
       /\ Cardinality(NewNodes("Phi")) = Cardinality(NewPhis)
       /\ Cardinality(NewNodes("Block")) <= 1
       /\ NewNodes("Block") # {} => NewPhis # {}
       /\ \A i \in NewPhis : nodes'[locals'[i]].values[1] \in NewNodes("Block")]_vars

IsPhi(node) == ~isBad(node) /\ nodes[node].type = "Phi"

\* after the build both locals are Phis of one Block, or one is a Phi and the
\* other is not
C9_Witness ==
  /\ Built
  /\ ~isInUnreachable(locals)
  /\ \E i, j \in 1..numLocals :
       /\ IsPhi(locals[i])
       /\ i # j
       /\ \/ ~IsPhi(locals[j])
          \/ IsPhi(locals[j]) /\ nodes[locals[j]].values[1] = nodes[locals[i]].values[1]

\* C10: Phi arity.  For every Phi of the arena, at every point of the build,
\* the number of its inputs is the number of conditions of its Block, and a
\* merge gives its Phis as many inputs as it merges Reachable states.
C10_PhiArity ==
  /\ [](\A n \in NodeIds :
          nodes[n].type = "Phi" =>
            /\ nodes[n].values[1] \in NodeIds
            /\ nodes[nodes[n].values[1]].type = "Block"
            /\ Len(nodes[n].values) - 1 = Len(nodes[nodes[n].values[1]].values))
  /\ [][IsMerge =>
          \A n \in NewNodes("Phi") :
            Len(nodes'[n].values) - 1 = Len(reachableInputs)]_vars

\* a Phi of three inputs (a labelled block with two branches to it) in a
\* build in which loop-phi resolution undid a Var
C10_Witness ==
  /\ Built
  /\ undone # {}
  /\ \E n \in NodeIds : nodes[n].type = "Phi" /\ Len(nodes[n].values) = 4


\* C11: Bad wins at a merge.  In a merge of two or more Reachable inputs, if
\* the slot i of any input is the canonical Bad node, the output slot i is
\* Bad and no Phi is allocated for local i, whatever the other inputs hold.
C11_BadWinsAtMerge ==
  [][(IsMerge /\ Len(reachableInputs) >= 2) =>
       /\ \A i \in 1..numLocals :
            Bad \in inputSlots(i) => (isBad(locals'[i]) /\ i \notin NewPhis)
       /\ Cardinality(NewNodes("Phi")) <=
            Cardinality({ i \in 1..numLocals : Bad \notin inputSlots(i) })]_vars

\* a labelled block was left into which two Reachable states flowed, one with
\* Bad and one with a node at slot i, and local i is Bad
C11_Witness ==
  /\ Built
  /\ ~isInUnreachable(locals)
  /\ \E name \in DOMAIN breakStates \cap DOMAIN parentMap :
       LET states == breakStates[name] IN
       /\ Len(states) = 2
       /\ ~isInUnreachable(states[1])
       /\ ~isInUnreachable(states[2])
       /\ \E i \in 1..numLocals :
            /\ isBad(locals[i])
            /\ { states[1][i], states[2][i] } # { Bad }
            /\ Bad \in { states[1][i], states[2][i] }


\* the body has not been walked yet
BeforeBody == visited = 0 /\ ~aborted

IsZeroOfType(node, type) ==
  /\ ~isBad(node)
  /\ nodes[node].type = "Expr"
  /\ nodes[node].op = "Const"
  /\ nodes[node].lit = 0
  /\ nodes[node].wasmType = type

IsVarOfType(node, type) ==
  /\ ~isBad(node)
  /\ nodes[node].type = "Var"
  /\ nodes[node].wasmType = type

\* C12 as stated: before the body is walked every parameter local maps to
\* its own fresh Var node of its declared type, no two parameters map to the
\* same node, and every non-parameter local maps to a zero-constant Expr node
\* of its declared type.
C12_ParamsAreVars ==
  BeforeBody =>
    /\ \A i \in 1..numLocals :
         IF isParam(i) THEN IsVarOfType(locals[i], getLocalType(i))
         ELSE IsZeroOfType(locals[i], getLocalType(i))
    /\ \A i, j \in 1..numLocals :
         (isParam(i) /\ isParam(j) /\ i # j) => locals[i] # locals[j]

\* C12, amended: before the body is walked every parameter local of integer
\* type maps to its own fresh Var node of its declared type, no two of them
\* (and no two locals at all that are not Bad) map to the same node; every
\* parameter local of another type maps to the canonical Bad node; every
\* non-parameter local, of any type, maps to a zero-constant Expr node of its
\* declared type.
C12_IntegerParamsAreVars ==
  BeforeBody =>
    /\ Len(locals) = numLocals
    /\ \A i \in 1..numLocals :
         IF ~isParam(i) THEN IsZeroOfType(locals[i], getLocalType(i))
         ELSE IF isRelevantLocal(i) THEN IsVarOfType(locals[i], getLocalType(i))
         ELSE isBad(locals[i])
    /\ \A i, j \in 1..numLocals :
         (i # j /\ ~isBad(locals[i])) => locals[i] # locals[j]

\* a function with an integer parameter, a parameter of another type and a
\* local that is no parameter has been set up
C12_Witness ==
  /\ BeforeBody
  /\ \E i, j, k \in 1..numLocals :
       /\ isParam(i) /\ isRelevantLocal(i)
       /\ isParam(j) /\ ~isRelevantLocal(j)
       /\ ~isParam(k)


\* the type the operands of Expr n are to have: the operand type of its
\* operator for a comparison, the type of the Expr otherwise
operandTypeOf(n) ==
  IF nodes[n].op \in RelationalOps THEN OperandType(nodes[n].op)
  ELSE nodes[n].wasmType

IsZext(node) == ~isBad(node) /\ nodes[node].type = "Zext"

\* C13: Type consistency.  For every Expr node of type T of the arena every
\* child that is not a Zext has type T, and the inner node of every Zext is
\* an i1-returning comparison Expr.  (T is read as the type of the operands
\* for a comparison, whose own type is i32 in wasm, and the condition of a
\* Select as a predicate, not as a value of type T.)
C13_TypeConsistency ==
  ~aborted =>
    \A n \in NodeIds :
      /\ nodes[n].type = "Expr" =>
           \A v \in 1..Len(nodes[n].values) :
             LET child == nodes[n].values[v] IN
             \/ IsZext(child)
             \/ nodes[n].op = "Select" /\ v = 1 /\ returnsI1(nodes, child)
             \/ /\ ~(nodes[n].op = "Select" /\ v = 1)
                /\ getWasmType(nodes, child) = operandTypeOf(n)
      /\ nodes[n].type = "Zext" => returnsI1(nodes, nodes[n].values[1])

\* the integer contexts of node n: the indexes of the children that are to
\* be integers at their natural width
integerContexts(n) ==
  IF nodes[n].type = "Phi" THEN 2..Len(nodes[n].values)
  ELSE IF nodes[n].type = "Expr" /\ nodes[n].op = "Select" THEN {2, 3}
  ELSE IF nodes[n].type = "Expr" THEN 1..Len(nodes[n].values)
  ELSE {}

\* C14: i1 adaptation.  At the end of the build no i1-returning comparison
\* Expr is a direct operand in an integer context (operand of Clz, Ctz,
\* Popcnt, of a supported binary, of a synthesized zero-comparison, value
\* operand of a Select, input of a Phi): it is wrapped in a Zext there, also
\* where loop-phi resolution put it in the place of a loop-entry Var.
C14_NoBareI1Operand ==
  Built =>
    \A n \in NodeIds : \A v \in integerContexts(n) :
      ~returnsI1(nodes, nodes[n].values[v])


\* this step is the visit of a branch or of a switch: the only visitors that
\* touch the break-state registry and leave the stack of visitors alone
IsBranch ==
  /\ ~aborted /\ ~aborted'
  /\ stack' = stack
  /\ breakStates' # breakStates

\* the snapshots that this step appended for label name
appended(name) ==
  LET old == IF name \in DOMAIN breakStates THEN breakStates[name] ELSE << >>
  IN SubSeq(breakStates'[name], Len(old) + 1, Len(breakStates'[name]))

\* C15: Break-state registry holds only Reachable snapshots.  Every snapshot
\* that a branch or a switch appends to the registry is a Reachable local
\* state, of the length of the function's local count; a branch or switch
\* visited while the path is Unreachable appends no entry.
C15_OnlyReachableSnapshots ==
  [][IsBranch =>
       /\ ~isInUnreachable(locals)
       /\ \A name \in DOMAIN breakStates' :
            \A k \in 1..Len(appended(name)) :
              Len(appended(name)[k]) = numLocals]_vars

\* the ids of the sets recorded, in the order of the list
setIds == [k \in 1..Len(sets) |-> sets[k].id]

\* C16: Set registry.  The ordered set list holds, in visit order and each
\* once, exactly the local.sets of integer-typed locals met on a Reachable
\* path, and the set-node map maps each of them to the node that the set
\* stored into locals[index]; a local.set of another local or on an
\* Unreachable path is in neither the list nor the map.
C16_SetRegistry ==
  /\ [](/\ \A k, l \in 1..Len(sets) : k < l => sets[k].id < sets[l].id
        /\ DOMAIN setNodeMap = { sets[k].id : k \in 1..Len(sets) }
        /\ \A k \in 1..Len(sets) : isRelevantLocal(sets[k].index))
  /\ [][\A curr \in AllSets :
          (VisitSetLocal(curr) /\ ~aborted') =>
            IF isRelevantLocal(curr.index) /\ ~isInUnreachable(locals)
            THEN /\ sets' = Append(sets, [id |-> visited', index |-> curr.index,
                                          value |-> curr.value])
                 /\ visited' \notin DOMAIN setNodeMap
                 /\ \A id \in DOMAIN setNodeMap : setNodeMap'[id] = setNodeMap[id]
                 /\ ~isInUnreachable(locals')
                 /\ locals'[curr.index] = setNodeMap'[visited']
            ELSE sets' = sets /\ setNodeMap' = setNodeMap]_vars
  /\ [][(\A curr \in AllSets : ~VisitSetLocal(curr)) =>
          (sets' = sets /\ setNodeMap' = setNodeMap)]_vars


\* what this step of the Writer appends to the buffer
justWritten == SubSeq(o', Len(o) + 1, Len(o'))

\* what the Writer wrote from offset start on, after this step
writtenFrom(start) == SubSeq(o', start + 1, Len(o'))

\* the first k children were written one after the other, in their order,
\* and fill the buffer from offset from to offset to
RECURSIVE InOrder(_, _, _, _)
InOrder(children, k, from, to) ==
  IF k = 0 THEN from = to
  ELSE \E s \in 1..Len(spans) :
         /\ spans[s].curr = children[k]
         /\ spans[s].stop = to
         /\ InOrder(children, k - 1, from, spans[s].start)

\* the Writer wrote all of the expression it was given
Written == work = << >> /\ ~aborted

\* C17: Writer, unreachable block.  For a block whose static type is
\* unreachable the writer emits Block, the type byte for none, the children
\* in order, one Unreachable, End, and one more Unreachable after End; for a
\* block of any other type it emits Block, its type byte, the children, End
\* and no added Unreachable.
C17_UnreachableBlock ==
  [][Resuming("Block") =>
       LET curr == Head(work).curr
           start == Head(work).start
       IN /\ ~aborted'
          /\ InOrder(curr.list, Len(curr.list), start + 2, Len(o))
          /\ writtenFrom(start) =
               IF curr.type = unreachable
               THEN << int8("Block"), binaryType(None) >>
                      \o SubSeq(o, start + 3, Len(o))
                      \o << int8("Unreachable"), int8("End"),
                            int8("Unreachable") >>
               ELSE << int8("Block"), binaryType(curr.type) >>
                      \o SubSeq(o, start + 3, Len(o))
                      \o << int8("End") >>]_vars

\* the block of type unreachable whose last child is a nop was written
C17_Witness ==
  /\ Written
  /\ spans[Len(spans)].curr = makeBlock(NoName, << Unreachable, makeNop >>)
  /\ spans[Len(spans)].curr.type = unreachable
  /\ o = << int8("Block"), binaryType(None), int8("Unreachable"), int8("Nop"),
            int8("Unreachable"), int8("End"), int8("Unreachable") >>

\* the number of entries of the break stack above the innermost entry that
\* is name
distance(name) ==
  LET i == CHOOSE i \in 1..Len(breakStack) :
             /\ breakStack[i] = name
             /\ \A j \in (i + 1)..Len(breakStack) : breakStack[j] # name
  IN Len(breakStack) - i

onBreakStack(name) == \E i \in 1..Len(breakStack) : breakStack[i] = name

\* TableSwitch, the target count, the index of each target and of the default
tableOf(curr) ==
  << int8("TableSwitch"), U32LEB(Len(curr.targets)) >>
    \o [k \in 1..Len(curr.targets) |-> U32LEB(distance(curr.targets[k]))]
    \o << U32LEB(distance(curr.default)) >>

\* every target of the switch, and its default, is on the break stack
targetsOnBreakStack(curr) ==
  /\ onBreakStack(curr.default)
  /\ \A k \in 1..Len(curr.targets) : onBreakStack(curr.targets[k])

\* all that a switch writes is Unreachable, or its children and its table
C18_SwitchAsClaimed(curr, start) ==
  IF ~isBranchReachable(curr)
  THEN ~aborted' /\ writtenFrom(start) = << int8("Unreachable") >>
  ELSE /\ InOrder(childrenOf(curr), Len(childrenOf(curr)), start, Len(o))
       /\ IF targetsOnBreakStack(curr)
          THEN ~aborted' /\ justWritten = tableOf(curr)
          ELSE aborted'

\* C18: Writer, statically unreachable switch.  When a switch's branch is
\* statically unreachable, the writer emits Unreachable and nothing else for
\* that switch (no value, no condition, no TableSwitch opcode, no target count
\* or indices); only a reachable switch emits value (if any), condition,
\* TableSwitch, the target count, each target's break index and the
\* default's index.
C18_UnreachableSwitchIsOneOpcode ==
  [][Resuming("Switch") =>
       C18_SwitchAsClaimed(Head(work).curr, Head(work).start)]_vars

\* C18, amended: a switch whose branch is statically unreachable is written
\* as its value (if any), its condition and one Unreachable, with no
\* TableSwitch opcode, target count or indices; a reachable switch is written
\* as value (if any), condition, TableSwitch, the target count, each target's
\* break index and the default's index.
C18_UnreachableSwitchHasNoTable ==
  [][Resuming("Switch") =>
       LET curr == Head(work).curr
           start == Head(work).start
       IN /\ InOrder(childrenOf(curr), Len(childrenOf(curr)), start, Len(o))
          /\ IF ~isBranchReachable(curr)
             THEN ~aborted' /\ justWritten = << int8("Unreachable") >>
             ELSE IF targetsOnBreakStack(curr)
             THEN ~aborted' /\ justWritten = tableOf(curr)
             ELSE aborted']_vars

\* a switch with a value and with a condition of type unreachable was written
C18_Witness ==
  /\ Written
  /\ spans[Len(spans)].curr =
       makeSwitch(<< "b" >>, "a", Unreachable, Const(I32, 1))
  /\ ~isBranchReachable(spans[Len(spans)].curr)
  /\ o = << int8("I32Const"), S32LEB(1), int8("Unreachable"),
            int8("Unreachable") >>

\* the opcode and the immediates of a call
callOf(curr) ==
  IF curr.kind = "CallIndirect"
  THEN << int8("CallIndirect"), U32LEB(getFunctionTypeIndex(curr.fullType)),
          U32LEB(0) >>
  ELSE << int8("CallFunction"), U32LEB(getFunctionIndex(curr.target)) >>

\* C19: Writer, calls.  For every call kind (direct call, import call,
\* indirect call) the writer emits the operands in order (for an indirect
\* call the target expression after the operands), then the call opcode and
\* its index immediates, and then a trailing Unreachable whenever the call's
\* type is unreachable.
C19_CallsEndUnreachable ==
  [][\A kind \in { "Call", "CallImport", "CallIndirect" } :
       Resuming(kind) =>
         LET curr == Head(work).curr
             start == Head(work).start
             operands == IF kind = "CallIndirect"
                         THEN Append(curr.operands, curr.target)
                         ELSE curr.operands
         IN /\ ~aborted'
            /\ InOrder(operands, Len(operands), start, Len(o))
            /\ justWritten =
                 callOf(curr) \o IF curr.type = unreachable
                                 THEN << int8("Unreachable") >> ELSE << >>]_vars

\* the indexes among what was just written
indexesWritten == SelectSeq(justWritten, LAMBDA byte : "u32" \in DOMAIN byte)

\* the names of names[1..k] that come before the first that is not on the
\* break stack
RECURSIVE foundFirst(_, _)
foundFirst(names, k) ==
  IF k > Len(names) \/ ~onBreakStack(names[k]) THEN << >>
  ELSE << names[k] >> \o foundFirst(names, k + 1)

WrittenAt(curr, from, to) ==
  \E s \in 1..Len(spans) :
    spans[s].curr = curr /\ spans[s].start = from /\ spans[s].stop = to

\* the type byte of a block, a loop or an if
typeByte(curr) ==
  binaryType(IF curr.type = unreachable THEN None ELSE curr.type)

\* C21: Writer, if with unreachable condition.  When the if's condition has
\* type unreachable the writer emits the condition followed by one
\* Unreachable and emits no If opcode, type byte, arm, Else or End; otherwise
\* it emits condition, If, type byte, true arm, Else and false arm when
\* present, End, and one extra Unreachable after End exactly when the if's
\* own type is unreachable.
C21_IfWithUnreachableCondition ==
  [][/\ (Resuming("If") /\ typeOf(Head(work).curr.condition) = unreachable) =>
          /\ WrittenAt(Head(work).curr.condition, Head(work).start, Len(o))
          /\ justWritten = << int8("Unreachable") >>
          /\ work' = Tail(work)
          /\ ~aborted'
     /\ (Resuming("If") /\ typeOf(Head(work).curr.condition) # unreachable) =>
          /\ WrittenAt(Head(work).curr.condition, Head(work).start, Len(o))
          /\ justWritten = << int8("If"), typeByte(Head(work).curr) >>
     /\ (Resumes("else", "If") \/ Resumes("end", "If")) =>
          LET curr == Head(work).curr
              start == Head(work).start
              last == IF curr.type = unreachable
                      THEN << int8("End"), int8("Unreachable") >>
                      ELSE << int8("End") >>
          IN /\ typeOf(curr.condition) # unreachable
             /\ \E c, t \in start..Len(o) :
                  /\ WrittenAt(curr.condition, start, c)
                  /\ SubSeq(o, c + 1, c + 2) = << int8("If"), typeByte(curr) >>
                  /\ WrittenAt(curr.ifTrue, c + 2, t)
                  /\ IF curr.ifFalse = nullptr
                     THEN t = Len(o) /\ justWritten = last
                     ELSE IF Head(work).k = "else"
                     THEN t = Len(o) /\ justWritten = << int8("Else") >>
                     ELSE /\ o[t + 1] = int8("Else")
                          /\ WrittenAt(curr.ifFalse, t + 1, Len(o))
                          /\ justWritten = last]_vars

\* an if with a condition of type unreachable was written, in a block
C21_Witness ==
  /\ Written
  /\ spans[Len(spans)].curr =
       makeBlock("a", << makeIf(Unreachable, makeBreak("a", nullptr, nullptr),
                                makeNop) >>)
  /\ o = << int8("Block"), binaryType(None), int8("Unreachable"),
            int8("Unreachable"), int8("End") >>

\* some branch or switch in the block targets the block by its name
targeted(block) == block.name \in branchTargets(block)

pushed(item) ==
  IF item.k = "rest" /\ item.curr.kind \in { "Block", "Loop" }
  THEN << item.curr.name >>
  ELSE IF item.k \in { "else", "end" } THEN << IMPOSSIBLE_CONTINUE >>
  ELSE << >>

\* the entries of the visitors that have not returned, the outermost first
RECURSIVE openLabels(_)
openLabels(items) ==
  IF items = << >> THEN << >>
  ELSE openLabels(Tail(items)) \o pushed(Head(items))

\* C30: Writer break stack is balanced.  After the writer has emitted any
\* expression without aborting, the break stack is identical to what it was
\* before that expression.  A block pushes its label for its children, a loop
\* pushes its label for its body, each if arm pushes exactly one placeholder
\* entry (so a branch inside an if arm to an enclosing label counts the if as
\* one nesting level), and each push is popped before the matching End or
\* Else is emitted.  In every state the break stack holds exactly the entries
\* of the blocks, loops and if arms that are being written.
C30_BreakStackBalanced ==
  /\ [](~aborted => breakStack = openLabels(work))
  /\ [][(~aborted' /\ Len(work') < Len(work)) =>
          /\ breakStack' = openLabels(Tail(work))
          /\ (justWritten # << >> /\ justWritten[1] = int8("End")) =>
               Len(breakStack') = Len(breakStack) - 1]_vars

\* a branch in an if arm to the block around the if was written with index 1,
\* and the break stack is empty again
C30_Witness ==
  /\ Written
  /\ breakStack = << >>
  /\ spans[Len(spans)].curr =
       makeBlock("a", << makeIf(GetLocal(1), makeBreak("a", nullptr, nullptr),
                                nullptr) >>)
  /\ o = << int8("Block"), binaryType(None), int8("GetLocal"), U32LEB(0),
            int8("If"), binaryType(None), int8("Br"), U32LEB(1), int8("End"),
            int8("End") >>


-----------------------------------------------------------------------------
(* The Unreachable state protocol of the builder.                          *)

\* this step is the visit of a statement that ends the path: a branch without
\* a condition, a switch, a return or an unreachable
EndsPath ==
  \/ \E name \in Labels : VisitBreak(name, FALSE)
  \/ \E targets \in SUBSET Labels : VisitSwitch(targets)
  \/ VisitReturn
  \/ VisitUnreachable

\* this step is the visit of a local-set of a relevant local
IsSetLocal == \E curr \in SetLocals : VisitSetLocal(curr)

\* this step takes the walk from an Unreachable state to a Reachable one
BecomesReachable == ~aborted' /\ isInUnreachable(locals) /\ ~isInUnreachable(locals')

\* C23 as stated: after an unconditional branch, a switch, a return or an
\* unreachable the local state is Unreachable; while it is Unreachable a
\* local-set changes no slot and records nothing and a local-get returns Bad;
\* and the state becomes Reachable again only through a merge that has at
\* least one Reachable input.
C23_AsClaimed ==
  /\ [][EndsPath => isInUnreachable(locals')]_vars
  /\ [][(isInUnreachable(locals) /\ IsSetLocal) =>
          UNCHANGED << locals, sets, setNodeMap, parentMap, nodes >>]_vars
  /\ [](isInUnreachable(locals) =>
          \A index \in 1..numLocals :
            visitGetLocal([index |-> index], nodes, locals).node = Bad)
  /\ [][BecomesReachable => (IsMerge /\ Len(reachableInputs) >= 1)]_vars

\* this step begins the false arm of an if whose condition was evaluated on a
\* Reachable path
RestoresInitialState ==
  /\ EnterIfFalse
  /\ ~isInUnreachable(top.initialState)
  /\ locals' = top.initialState

\* C23: after an unconditional branch, a switch, a return or an unreachable
\* the local state is Unreachable; while it is Unreachable a local-set
\* changes no slot and records nothing and a local-get returns Bad; and the
\* state becomes Reachable again only through a merge that has at least one
\* Reachable input, or at the start of the false arm of an if, which is walked
\* from the Reachable state captured after the condition.
C23_UnreachableProtocol ==
  /\ [][EndsPath => isInUnreachable(locals')]_vars
  /\ [][(isInUnreachable(locals) /\ IsSetLocal) =>
          UNCHANGED << locals, sets, setNodeMap, parentMap, nodes >>]_vars
  /\ [](isInUnreachable(locals) =>
          \A index \in 1..numLocals :
            visitGetLocal([index |-> index], nodes, locals).node = Bad)
  /\ [][BecomesReachable =>
          \/ IsMerge /\ Len(reachableInputs) >= 1
          \/ RestoresInitialState]_vars

\* a labelled block that was left by a branch has been merged on a path that
\* had ended, and the walk is Reachable again
C23_Witness ==
  /\ ~aborted
  /\ ~isInUnreachable(locals)
  /\ stack = << >>
  /\ breakStates # << >>
  /\ \E name \in DOMAIN breakStates :
       /\ Len(breakStates[name]) = 2
       /\ ~isInUnreachable(breakStates[name][1])
       /\ isInUnreachable(breakStates[name][2])


-----------------------------------------------------------------------------
(* The arms of an if.                                                      *)

\* the ifs that are open and whose true arm is being walked, by depth
openIfs == { d \in 1..Len(stack) : stack[d].kind = "if" }

\* C24: the arms of an if with an else are isolated.  The state captured for
\* an if is the local state right after its condition was evaluated, it is
\* not changed while the true arm is walked, and the false arm starts from
\* exactly that state: whatever the true arm set, and whether or not it ended
\* Unreachable, every slot read at the start of the false arm is the slot as
\* it was before the true arm.
C24_IfArmsIsolated ==
  /\ [][(\E condition \in Conditions : EnterIf(condition)) =>
          (~aborted' => /\ stack'[Len(stack')].initialState = locals
                        /\ locals' = locals)]_vars
  /\ [][\A d \in openIfs :
          (d <= Len(stack') /\ stack'[d].id = stack[d].id) =>
             stack'[d].initialState = stack[d].initialState]_vars
  /\ [][EnterIfFalse =>
          /\ locals' = top.initialState
          /\ isInUnreachable(locals') = isInUnreachable(top.initialState)
          /\ \A index \in 1..numLocals :
               visitGetLocal([index |-> index], nodes', locals').node =
                 visitGetLocal([index |-> index], nodes', top.initialState).node]_vars

\* the false arm of an if has begun after a true arm that set a local, and
\* after a true arm that ended the path
C24_Witness ==
  /\ ~aborted
  /\ stack # << >>
  /\ top.kind = "else"
  /\ ~isInUnreachable(top.initialState)
  /\ locals = top.initialState
  /\ top.afterIfTrueState # top.initialState
  /\ \E s \in 1..Len(sets) : sets[s].id > top.id


-----------------------------------------------------------------------------
(* The arena.                                                              *)

\* node j of the arena is not the same after this step
Modified(j) == nodes'[j] # nodes[j]

\* C25: the arena is append-only and its nodes are immutable outside loop-phi
\* resolution.  No step removes or reorders nodes: the node count never
\* decreases and a node keeps its place, its variant and its type.  The
\* child list of a node already in the arena changes only in the step that
\* resolves a labelled loop, and only for nodes appended after that loop's
\* entry checkpoint: the nodes created before the loop are never modified.
C25_ArenaAppendOnly ==
  [][~aborted' =>
       /\ Len(nodes') >= Len(nodes)
       /\ \A j \in 1..Len(nodes) :
            /\ [nodes'[j] EXCEPT !.values = nodes[j].values] = nodes[j]
            /\ Modified(j) => (IsLoopExit /\ j > top.firstNodeFromLoop)]_vars

\* resolution has undone a Var of a loop, and a node made in the body of that
\* loop now refers to a node that is older than the loop
C25_Witness ==
  /\ ~aborted
  /\ \E var \in undone : \E j \in 1..Len(nodes) :
       /\ j > var
       /\ \E child \in Children(nodes, j) :
            /\ ~isBad(child)
            /\ child + numLocals <= var


-----------------------------------------------------------------------------
(* Accesses to the slots of a local state.                                 *)

\* this step enters a labelled loop on an Unreachable path: lines 255-257
\* write locals[i] for every local i of the empty state
LoopEntryIndexesEmpty ==
  /\ EnterLoop(TRUE)
  /\ isInUnreachable(locals)

\* this step leaves a labelled loop and reads slot i of an empty state: of
\* vars and previous, when the loop was entered on an Unreachable path, or
\* of a snapshot that a branch in dead code stored for the loop
ResolutionIndexesEmpty ==
  /\ ExitLoop
  /\ top.name # 0
  /\ \/ isInUnreachable(top.vars)
     \/ \E garbage \in [1..numLocals -> BOOLEAN] :
          resolveLoop(top, loopBreaks, garbage, nodes, locals, 1).undefined

\* C26: no access to an empty local state.  No step of the build reads or
\* writes a slot of an Unreachable state: not the entry of a labelled loop,
\* and not the scan of the snapshots when the loop is left.
C26_NoEmptyStateIndexed ==
  [][~LoopEntryIndexesEmpty /\ ~ResolutionIndexesEmpty]_vars


-----------------------------------------------------------------------------
(* What loop-phi resolution rewrites.                                      *)

\* the Var nodes made at the entry of the loop that is being left
loopVars == { top.vars[i] : i \in 1..Len(top.vars) } \ { Bad }

\* C27: loop-phi resolution rewrites only what held a Var of the loop.  In
\* the step that leaves a labelled loop, a local slot or a child reference
\* that changes held a Var node created at the entry of that loop; slots and
\* Block conditions that hold the canonical Bad node are left as they are,
\* also when a local of the function has a non-integer type.
C27_ResolutionRewritesOnlyVars ==
  [][IsLoopExit =>
       /\ \A k \in 1..Len(locals) :
            locals'[k] # locals[k] => locals[k] \in loopVars
       /\ \A j \in 1..Len(nodes) : \A v \in 1..Len(nodes[j].values) :
            nodes'[j].values[v] # nodes[j].values[v] =>
              nodes[j].values[v] \in loopVars]_vars


-----------------------------------------------------------------------------
(* The registries after loop-phi resolution.                               *)

\* the labels of the blocks that are open
openBlockLabels ==
  { stack[d].name : d \in { e \in 1..Len(stack) : stack[e].kind = "block" } } \ { 0 }

\* the snapshots the break-state registry keeps for the open blocks
enclosingSnapshots ==
  UNION { { breakStates[name][k] : k \in 1..Len(breakStates[name]) } :
          name \in openBlockLabels \cap DOMAIN breakStates }

\* C28: resolved loop Vars do not leak through the registries.  Once
\* resolution has undone the Var of a local, no snapshot kept in the
\* break-state registry for the label of an enclosing block has it in a slot,
\* and no entry of the set-node map is that Var.
C28_NoUndoneVarInRegistries ==
  \A var \in undone :
    /\ \A state \in enclosingSnapshots :
         \A i \in 1..Len(state) : state[i] # var
    /\ \A id \in DOMAIN setNodeMap : setNodeMap[id] # var


-----------------------------------------------------------------------------
(* The assertion of merge.                                                 *)

\* the walk is at the end of an if, or of a labelled block that was branched
\* to: the next step of that visitor is a call of merge
MergeDue ==
  /\ ~aborted
  /\ stack # << >>
  /\ \/ top.kind \in {"if", "else"}
     \/ top.kind = "block" /\ top.name # 0 /\ top.name \in DOMAIN breakStates

\* the local states that call of merge is given
mergeCall ==
  IF top.kind = "block" THEN blockStates(breakStates, top.name, locals)
  ELSE ifStates(top, locals)

\* C29: the assertion of merge always holds.  Whenever merge is called and
\* every input state is Unreachable, the current local state is Unreachable
\* too, so `assert(isInUnreachable())` does not fail, for any nesting of ifs
\* with or without else, labelled blocks, loops, branches, switches and
\* returns.
C29_MergeAssertionHolds ==
  MergeDue =>
    /\ (\A k \in 1..Len(mergeCall) : isInUnreachable(mergeCall[k]))
          => isInUnreachable(locals)
    /\ ~merge([k \in 1..Len(mergeCall) |-> FlowState(mergeCall[k], Bad)],
              locals, nodes).abort

\* a labelled block has ended whose branches and whose end were all on paths
\* that had ended: merge was called with no Reachable input
C29_Witness ==
  /\ ~aborted
  /\ isInUnreachable(locals)
  /\ \E name \in (DOMAIN breakStates \cap DOMAIN parentMap) \ Labels :
       /\ Len(breakStates[name]) >= 2
       /\ \A k \in 1..Len(breakStates[name]) :
            isInUnreachable(breakStates[name][k])

====
